---- MODULE Spec2Model ----
(***************************************************************************)
(* CardioCoach backend: the cascade coaching service (coach_service.py),   *)
(* its cache and metrics, and the enrichment boundary (llm_coach.py).      *)
(*                                                                         *)
(* Python dicts are modelled as sequences of entries in insertion order    *)
(* (a dict keeps insertion order; overwriting a key keeps its position).   *)
(* time.time() is a coarse integer clock `now` that never runs backwards.  *)
(* A latency average is an exact decimal fraction n / 10^e (float rounding *)
(* is not modelled).                                                       *)
(***************************************************************************)
EXTENDS Integers, Sequences, FiniteSets, TLC

VARIABLES
    now,              \* time.time(), in clock units
    _workout_cache,   \* coach_service._workout_cache
    _weekly_cache,    \* coach_service._weekly_cache
    metrics,          \* coach_service.metrics (CoachMetrics)
    pending,          \* per caller: the coroutine its call created, not yet run
    ret,              \* outcome of the most recent request
    cleaned,          \* input and output of the most recent _cleanup_cache pass
    gpt,              \* one direct caller's view of llm_coach._call_gpt
    issued            \* how many requests have been made (bounds the exploration)

vars == <<now, _workout_cache, _weekly_cache, metrics, pending, ret, cleaned, gpt, issued>>

(***************************************************************************)
(* Bounds.  CACHE_TTL_SECONDS and MAX_CACHE_SIZE stand for the program's   *)
(* 3600 and 500 (coach_service.py:91-92), scaled down so that expiry and   *)
(* overflow happen within a few steps.                                     *)
(***************************************************************************)
CACHE_TTL_SECONDS == 2
MAX_CACHE_SIZE == 1
MaxRequests == 2

MaxTime == CACHE_TTL_SECONDS + 1
NumKeys == MAX_CACHE_SIZE + 1

(***************************************************************************)
(* Inputs.                                                                 *)
(***************************************************************************)
Get(d, field, default) == IF field \in DOMAIN d THEN d[field] ELSE default

\* A Python value of a data field: an int or a str.
PyInt(i) == [t |-> "int", v |-> i]
PyStr(s) == [t |-> "str", v |-> s]

\* Python's None, and a value that is not None.
None == [some |-> FALSE, v |-> <<>>]
Some(x) == [some |-> TRUE, v |-> x]

Workouts == {[id |-> PyInt(i), type |-> PyStr("run")] : i \in 1..NumKeys}

WorkoutRags == {<<>>, [summary |-> "seance"]}

WeeklyRags ==
    {[metrics |-> [km_total |-> PyInt(k)]] : k \in 1..NumKeys}
    \cup {[summary |-> "bilan", metrics |-> [km_total |-> PyInt(k)]] : k \in 1..NumKeys}

LatencySamples == {20}

(***************************************************************************)
(* CoachMetrics and the latency averages.                                  *)
(***************************************************************************)
Pow10(e) == IF e = 0 THEN 1 ELSE 10 ^ e

RECURSIVE Norm(_)
Norm(a) ==
    IF a.n = 0 THEN [n |-> 0, e |-> 0]
    ELSE IF a.e > 0 /\ a.n % 10 = 0 THEN Norm([n |-> a.n \div 10, e |-> a.e - 1])
    ELSE a

Zero == [n |-> 0, e |-> 0]

\* old * (1 - alpha) + latency_ms * alpha, alpha = 0.1
Ema(old, latency_ms) ==
    Norm([n |-> 9 * old.n + latency_ms * Pow10(old.e), e |-> old.e + 1])

CoachMetrics ==
    [llm_success |-> 0, llm_fallback |-> 0, cache_hits |-> 0, total_requests |-> 0,
     avg_latency_ms |-> Zero, llm_avg_latency_ms |-> Zero, cache_avg_latency_ms |-> Zero,
     workout_requests |-> 0, weekly_requests |-> 0, chat_requests |-> 0]

_update_latency(m, latency_ms, is_llm, is_cache) ==
    [m EXCEPT
        !.avg_latency_ms = Ema(@, latency_ms),
        !.llm_avg_latency_ms = IF is_llm THEN Ema(@, latency_ms) ELSE @,
        !.cache_avg_latency_ms = IF is_cache THEN Ema(@, latency_ms) ELSE @]

(***************************************************************************)
(* The cache.                                                              *)
(***************************************************************************)
str(x) == IF x.t = "int" THEN ToString(x.v) ELSE x.v

\* hashlib.md5(...).hexdigest() is taken to be collision-free: a digest is
\* represented by the string it hashes.
md5(s) == s

\* Variant of KeyFields: a sixth field takes part in the key.
KeyFields_with_max_heart_rate ==
    <<"id", "distance_km", "duration_minutes", "avg_heart_rate", "type", "max_heart_rate">>

KeyFields == <<"id", "distance_km", "duration_minutes", "avg_heart_rate", "type">>

RECURSIVE join(_, _)
join(sep, parts) ==
    IF Len(parts) = 0 THEN ""
    ELSE IF Len(parts) = 1 THEN parts[1]
    ELSE parts[1] \o sep \o join(sep, Tail(parts))

_cache_key(data, prefix) ==
    LET key_parts == <<prefix>> \o [i \in 1..Len(KeyFields) |-> str(Get(data, KeyFields[i], PyStr("")))]
    IN md5(join("_", key_parts))

\* Variants of _is_cache_valid: the comparison turned round, and an inclusive bound.
_is_cache_valid_inverted(timestamp, t) == (t - timestamp) > CACHE_TTL_SECONDS

_is_cache_valid_inclusive(timestamp, t) == (t - timestamp) <= CACHE_TTL_SECONDS

_is_cache_valid(timestamp, t) == (t - timestamp) < CACHE_TTL_SECONDS

Keys(cache) == {cache[i].key : i \in 1..Len(cache)}

IndexOf(cache, k) == CHOOSE i \in 1..Len(cache) : cache[i].key = k

Lookup(cache, k) == cache[IndexOf(cache, k)]

\* Variant of Store: the entry is added whether or not the key is present.
Store_append(cache, k, value, t) ==
    Append(cache, [key |-> k, summary |-> value.summary, used_llm |-> value.used_llm,
                   ts |-> t])

\* Variant of Store: cache.setdefault(k, (value, timestamp)), which keeps a prior entry.
Store_setdefault(cache, k, value, t) ==
    IF k \in Keys(cache) THEN cache
    ELSE Append(cache, [key |-> k, summary |-> value.summary,
                        used_llm |-> value.used_llm, ts |-> t])

\* cache[k] = (value, timestamp)
Store(cache, k, value, t) ==
    LET e == [key |-> k, summary |-> value.summary, used_llm |-> value.used_llm, ts |-> t]
    IN IF k \in Keys(cache) THEN [cache EXCEPT ![IndexOf(cache, k)] = e]
       ELSE Append(cache, e)

\* The entries of c at the indices in S, in their order in c.
Pick(c, S) ==
    [n \in 1..Cardinality(S) |->
        c[CHOOSE i \in S : Cardinality({j \in S : j < i}) = n - 1]]

\* Variant of sorted_items: sorted(..., reverse=True), newest first.
sorted_items_reverse(c) ==
    LET before(i) == {j \in 1..Len(c) : c[j].ts > c[i].ts \/ (c[j].ts = c[i].ts /\ j < i)}
    IN [n \in 1..Len(c) |-> CHOOSE i \in 1..Len(c) : Cardinality(before(i)) = n - 1]

\* sorted(cache.items(), key=lambda x: x[1][1]): the indices of c in ascending
\* timestamp order; sorted() is stable, so equal timestamps keep dict order.
sorted_items(c) ==
    LET before(i) == {j \in 1..Len(c) : c[j].ts < c[i].ts \/ (c[j].ts = c[i].ts /\ j < i)}
    IN [n \in 1..Len(c) |-> CHOOSE i \in 1..Len(c) : Cardinality(before(i)) = n - 1]

\* Variant of _cleanup_cache: the expired entries are not removed first.
_cleanup_cache_oldest_only(cache, t) ==
    IF Len(cache) > MAX_CACHE_SIZE
    THEN LET order == sorted_items(cache)
             evicted == {order[n] : n \in 1..(Len(cache) - MAX_CACHE_SIZE)}
         IN Pick(cache, (1..Len(cache)) \ evicted)
    ELSE cache

\* Variant of _cleanup_cache: the pass stops after removing the expired entries.
_cleanup_cache_expired_only(cache, t) ==
    IF Len(cache) > MAX_CACHE_SIZE
    THEN Pick(cache, {i \in 1..Len(cache) : _is_cache_valid(cache[i].ts, t)})
    ELSE cache

_cleanup_cache(cache, t) ==
    IF Len(cache) > MAX_CACHE_SIZE
    THEN LET expired_keys == {i \in 1..Len(cache) : ~_is_cache_valid(cache[i].ts, t)}
             kept == Pick(cache, (1..Len(cache)) \ expired_keys)
         IN IF Len(kept) > MAX_CACHE_SIZE
            THEN LET order == sorted_items(kept)
                     evicted == {order[n] : n \in 1..(Len(kept) - MAX_CACHE_SIZE)}
                 IN Pick(kept, (1..Len(kept)) \ evicted)
            ELSE kept
    ELSE cache

(***************************************************************************)
(* The enrichment call sites.  analyze_workout and weekly_review pass the  *)
(* payload under a keyword (workout=, stats=) that the functions of        *)
(* llm_coach.py do not declare (anonymized_workout, anonymized_stats).     *)
(* Python binds the arguments before it creates the coroutine: a call that *)
(* does not bind raises TypeError at once, inside the handler's try block, *)
(* and nothing is awaited.                                                 *)
(***************************************************************************)
enrich_workout_analysis_params == {"anonymized_workout", "user_id"}
enrich_workout_analysis_required == {"anonymized_workout"}
enrich_weekly_review_params == {"anonymized_stats", "user_id"}
enrich_weekly_review_required == {"anonymized_stats"}

analyze_workout_call_keywords == {"workout", "user_id"}
weekly_review_call_keywords == {"stats", "user_id"}

CallBinds(keywords, params, required) ==
    keywords \subseteq params /\ required \subseteq keywords

\* Variant of EnrichOutcomes: the awaited call never resolves.
EnrichOutcomes_never_resolves(binds, usable) == {}

\* What `await enrich_...(...)` can do at a call site: a bound call answers
\* with _call_gpt's triple, (text, True, meta) when the provider is usable and
\* replies with text in time, (None, False, meta) otherwise.
EnrichOutcomes(binds, usable) ==
    IF ~binds THEN {"TypeError"}
    ELSE IF usable THEN {"enriched", "declined"}
    ELSE {"declined"}

EnrichedText == "llm"

\* Variant of the handler: except asyncio.TimeoutError.
CaughtByExceptTimeoutError == {"TimeoutError"}

\* except Exception: the classes the handlers' blanket handler catches.
CaughtByExceptException == {"TypeError"}

Raises(outcome) == outcome \notin {"enriched", "declined"}

\* Variant of Propagates: a handler without the except clause.
Propagates_uncaught(outcome) == Raises(outcome)

Propagates(outcome) == Raises(outcome) /\ outcome \notin CaughtByExceptException

(***************************************************************************)
(* Requests.  Calling an async function creates a coroutine and runs none  *)
(* of its body; the body runs when the event loop steps it.  The handlers  *)
(* reach no await that suspends (see above), so a body runs as one step.   *)
(* Two callers can each have a request outstanding at the same time.       *)
(***************************************************************************)
Callers == {"a", "b"}

NoRival == [wrote |-> FALSE, summary |-> "", used_llm |-> FALSE, rag |-> <<>>, at |-> 0]

NoRequest == [kind |-> "none", workout |-> <<>>, rag |-> <<>>, rival |-> NoRival]

WorkoutRequests ==
    {[kind |-> "workout", workout |-> w, rag |-> r, rival |-> NoRival] :
        w \in Workouts, r \in WorkoutRags}

WeeklyRequests ==
    {[kind |-> "weekly", workout |-> <<>>, rag |-> r, rival |-> NoRival] : r \in WeeklyRags}

weekly_cache_data(rag_result) ==
    LET m == Get(rag_result, "metrics", <<>>)
    IN [id |-> PyStr("weekly_" \o str(Get(m, "nb_seances", PyInt(0)))
                        \o "_" \o str(Get(m, "km_total", PyInt(0)))),
        distance_km |-> Get(m, "km_total", PyInt(0)),
        duration_minutes |-> Get(m, "duree_totale", PyInt(0))]

KeyOf(req) ==
    IF req.kind = "workout" THEN _cache_key(req.workout, "workout")
    ELSE LET keyed[cache_data \in {weekly_cache_data(req.rag)}] ==
                 _cache_key(cache_data, "weekly")
         IN keyed[weekly_cache_data(req.rag)]

\* What a request observably did: the pair it returned (text, used_llm) or that it
\* raised; which stage answered (path); what the enrichment call did (outcome,
\* "none" when it was not attempted); the value it stored in the cache (stored);
\* the timestamp of the entry it found under its key (prior, -1 when absent); how
\* many requests for the same key were outstanding when it ran (rivals), what
\* one of them stored under the key while this request was outstanding (rival),
\* and the dict it built for the enrichment (stats, <<>> on a hit).
NoStore == [wrote |-> FALSE, summary |-> "", used_llm |-> FALSE]

NoCall ==
    [kind |-> "none", key |-> "", rag |-> <<>>, text |-> "", used_llm |-> FALSE,
     path |-> "none", outcome |-> "none", raised |-> FALSE, at |-> 0, prior |-> -1,
     stored |-> NoStore, rivals |-> 0, rival |-> NoRival, stats |-> <<>>]

\* The callers whose outstanding request is for the same cache and key as c's.
Rivals(c) ==
    {d \in Callers \ {c} :
        pending[d].kind = pending[c].kind /\ KeyOf(pending[d]) = KeyOf(pending[c])}

\* The requests left outstanding once c's has run with outcome r: what c's request
\* stored is noted on the requests racing with it.
Others(c, r) ==
    [d \in Callers |->
        IF d = c THEN NoRequest
        ELSE IF d \in Rivals(c) /\ r.stored.wrote
             THEN [pending[d] EXCEPT !.rival = [wrote |-> TRUE, summary |-> r.stored.summary,
                                                used_llm |-> r.stored.used_llm, rag |-> r.rag,
                                                at |-> r.at]]
        ELSE pending[d]]

\* Variant of count_request: only the per-type count moves.
count_request_type_only(m, kind) ==
    [m EXCEPT !.workout_requests = IF kind = "workout" THEN @ + 1 ELSE @,
              !.weekly_requests = IF kind = "weekly" THEN @ + 1 ELSE @,
              !.chat_requests = IF kind = "chat" THEN @ + 1 ELSE @]

\* metrics.total_requests += 1; metrics.<kind>_requests += 1
count_request(m, kind) ==
    [m EXCEPT !.total_requests = @ + 1,
              !.workout_requests = IF kind = "workout" THEN @ + 1 ELSE @,
              !.weekly_requests = IF kind = "weekly" THEN @ + 1 ELSE @,
              !.chat_requests = IF kind = "chat" THEN @ + 1 ELSE @]

\* {"summary": enriched, "used_llm": True}
enriched_value(enriched) == [summary |-> enriched, used_llm |-> TRUE]

\* Variant of the fallback write: {"summary": enriched, ...}, enriched being None.
fallback_value_enriched(deterministic_summary) == [summary |-> "", used_llm |-> FALSE]

\* {"summary": deterministic_summary, "used_llm": False}
fallback_value(deterministic_summary) == [summary |-> deterministic_summary, used_llm |-> FALSE]

Stored(value) == [wrote |-> TRUE, summary |-> value.summary, used_llm |-> value.used_llm]

\* cache[cache_key] = (value, time.time()); _cleanup_cache(cache)
write_and_cleanup(cache, cache_key, value, t) ==
    _cleanup_cache(Store(cache, cache_key, value, t), t)

\* Variant of workout_stats: rag_result.get(field) without a default.
workout_stats_without_defaults(workout, rag_result) ==
    [distance_km |-> Get(workout, "distance_km", PyInt(0)),
     duree_min |-> Get(workout, "duration_minutes", PyInt(0)),
     allure |-> Get(rag_result, "pace_str", None),
     fc_moy |-> Get(workout, "avg_heart_rate", None),
     fc_max |-> Get(workout, "max_heart_rate", None),
     denivele |-> Get(workout, "elevation_gain_m", None),
     type |-> Get(workout, "type", None),
     zones |-> Get(workout, "effort_zone_distribution", <<>>),
     splits |-> Get(rag_result, "splits_analysis", None),
     comparison |-> Get(Get(rag_result, "comparison", <<>>), "progression", None),
     points_forts |-> Get(rag_result, "points_forts", None),
     points_ameliorer |-> Get(rag_result, "points_ameliorer", None)]

\* The dict analyze_workout builds for the enrichment; {} and [] are <<>>.
workout_stats(workout, rag_result) ==
    [distance_km |-> Get(workout, "distance_km", PyInt(0)),
     duree_min |-> Get(workout, "duration_minutes", PyInt(0)),
     allure |-> Get(rag_result, "pace_str", "N/A"),
     fc_moy |-> Get(workout, "avg_heart_rate", None),
     fc_max |-> Get(workout, "max_heart_rate", None),
     denivele |-> Get(workout, "elevation_gain_m", None),
     type |-> Get(workout, "type", None),
     zones |-> Get(workout, "effort_zone_distribution", <<>>),
     splits |-> Get(rag_result, "splits_analysis", <<>>),
     comparison |-> Get(Get(rag_result, "comparison", <<>>), "progression", ""),
     points_forts |-> Get(rag_result, "points_forts", <<>>),
     points_ameliorer |-> Get(rag_result, "points_ameliorer", <<>>)]

\* The dict weekly_review builds for the enrichment.
weekly_stats(rag_result) ==
    LET m == Get(rag_result, "metrics", <<>>)
    IN [km_semaine |-> Get(m, "km_total", PyInt(0)),
        nb_seances |-> Get(m, "nb_seances", PyInt(0)),
        allure_moy |-> Get(m, "allure_moyenne", "N/A"),
        cadence_moy |-> Get(m, "cadence_moyenne", PyInt(0)),
        zones |-> Get(m, "zones", <<>>),
        ratio_charge |-> Get(m, "ratio", PyInt(1)),
        points_forts |-> Get(rag_result, "points_forts", <<>>),
        points_ameliorer |-> Get(rag_result, "points_ameliorer", <<>>),
        tendance |-> Get(Get(rag_result, "comparison", <<>>), "evolution", "stable")]

\* Variant of the hit path: the entry read is written back with the current time.
cache_after_hit_refreshed(cache, cache_key, t) ==
    [cache EXCEPT ![IndexOf(cache, cache_key)].ts = t]

\* The cache after a hit: cached_result, _ = cache[cache_key] reads the entry
\* and nothing on the hit path writes it.
cache_after_hit(cache, cache_key, t) == cache

\* The body of analyze_workout / weekly_review on `cache`, for caller c's request,
\* measured latency `latency` and enrichment outcome `outcome`.  The result names
\* the new cache, the new metrics, the cleanup pass made and the call's outcome.
Cascade(c, cache, latency, outcome) ==
    LET req == pending[c]
        counted == count_request(metrics, req.kind)
        cache_key == KeyOf(req)
        hit == cache_key \in Keys(cache) /\ _is_cache_valid(Lookup(cache, cache_key).ts, now)
        deterministic_summary == Get(req.rag, "summary", "")
        stats == IF req.kind = "workout" THEN workout_stats(req.workout, req.rag)
                 ELSE weekly_stats(req.rag)
        call == [NoCall EXCEPT !.kind = req.kind, !.key = cache_key, !.rag = req.rag,
                    !.at = now,
                    !.prior = IF cache_key \in Keys(cache)
                              THEN Lookup(cache, cache_key).ts ELSE -1,
                    !.rivals = Cardinality(Rivals(c)), !.rival = req.rival]
        pass(value) == [before |-> Store(cache, cache_key, value, now),
                        after |-> write_and_cleanup(cache, cache_key, value, now),
                        at |-> now]
    IN IF hit
       THEN LET cached_result == Lookup(cache, cache_key)
            IN [cache |-> cache_after_hit(cache, cache_key, now),
                metrics |-> _update_latency([counted EXCEPT !.cache_hits = @ + 1],
                                            latency, FALSE, TRUE),
                cleaned |-> cleaned,
                ret |-> [call EXCEPT !.path = "hit", !.text = cached_result.summary,
                            !.used_llm = cached_result.used_llm]]
       ELSE IF outcome = "enriched"
       THEN [cache |-> write_and_cleanup(cache, cache_key, enriched_value(EnrichedText), now),
             metrics |-> _update_latency([counted EXCEPT !.llm_success = @ + 1],
                                         latency, TRUE, FALSE),
             cleaned |-> pass(enriched_value(EnrichedText)),
             ret |-> [call EXCEPT !.path = "llm", !.outcome = outcome, !.stats = stats,
                         !.stored = Stored(enriched_value(EnrichedText)),
                         !.text = EnrichedText, !.used_llm = TRUE]]
       ELSE IF Propagates(outcome)
       THEN [cache |-> cache, metrics |-> counted, cleaned |-> cleaned,
             ret |-> [call EXCEPT !.path = "error", !.outcome = outcome, !.raised = TRUE,
                         !.stats = stats]]
       ELSE [cache |-> write_and_cleanup(cache, cache_key,
                                         fallback_value(deterministic_summary), now),
             metrics |-> _update_latency([counted EXCEPT !.llm_fallback = @ + 1],
                                         latency, FALSE, FALSE),
             cleaned |-> pass(fallback_value(deterministic_summary)),
             ret |-> [call EXCEPT !.path = "fallback", !.outcome = outcome, !.stats = stats,
                         !.stored = Stored(fallback_value(deterministic_summary)),
                         !.text = deterministic_summary, !.used_llm = FALSE]]

NoCleanup == [before |-> <<>>, after |-> <<>>, at |-> 0]

(***************************************************************************)
(* llm_coach._call_gpt, seen by one caller that awaits it.  A Python str   *)
(* is a sequence of one-character strings here, Optional[str] a record     *)
(* that says whether a value is present.                                   *)
(***************************************************************************)
LLM_TIMEOUT == 10

\* EMERGENT_LLM_KEY as read from the environment: a prefix and the rest.
KeyConfigs == {<<>>, <<"sk-emergent", "-1">>, <<"sk-live", "-1">>}

startswith(s, prefix) == Len(s) > 0 /\ s[1] = prefix

\* not (not EMERGENT_LLM_KEY or not EMERGENT_LLM_KEY.startswith("sk-emergent"))
KeyConfigured(key) == ~(key = <<>> \/ ~startswith(key, "sk-emergent"))

IsSpace(ch) == ch \in {" ", "\n", "\t"}

RECURSIVE lstrip(_)
lstrip(s) == IF s # <<>> /\ IsSpace(Head(s)) THEN lstrip(Tail(s)) ELSE s

RECURSIVE rstrip(_)
rstrip(s) ==
    IF s # <<>> /\ IsSpace(s[Len(s)]) THEN rstrip(SubSeq(s, 1, Len(s) - 1)) ELSE s

strip(s) == rstrip(lstrip(s))

\* str.rfind on a set of characters: the last position (from 1), 0 if none.
rfind(s, chars) ==
    LET at == {i \in 1..Len(s) : s[i] \in chars}
    IN IF at = {} THEN 0 ELSE CHOOSE i \in at : \A j \in at : j <= i

_clean_response(response) ==
    IF response = <<>>
    THEN <<>>
    ELSE LET r1 == strip(response)
             r2 == IF r1 # <<>> /\ Head(r1) = "\"" /\ r1[Len(r1)] = "\""
                   THEN SubSeq(r1, 2, Len(r1) - 1)
                   ELSE r1
             cut == SubSeq(r2, 1, 700)
             last_period == rfind(cut, {".", "!", "?"}) - 1
             r3 == IF Len(r2) > 700
                   THEN IF last_period > 400 THEN SubSeq(cut, 1, last_period + 1) ELSE cut
                   ELSE r2
         IN strip(r3)

\* str(response) for the replies the provider can give.
Responses ==
    {<<>>, <<" ">>, <<"\"", "\"">>, <<"\"", " ", "\"">>, <<"o", "k">>,
     <<" ", "o", "k", "\n">>, <<"\"", "o", "k", "\"">>}

ContextTypes == {"chat", "bilan", "seance"}

\* Exception classes: what `except Exception` takes.  asyncio.CancelledError
\* derives from BaseException.  The variant is the hierarchy before Python 3.8.
ExceptionClasses_py37 == {"TimeoutError", "ImportError", "ProviderError", "CancelledError"}

ExceptionClasses == {"TimeoutError", "ImportError", "ProviderError"}

\* Variant of the handlers of _call_gpt: only except asyncio.TimeoutError.
_call_gpt_handles_timeout_only(exc) == exc = "TimeoutError"

_call_gpt_handles(exc) == exc = "TimeoutError" \/ exc \in ExceptionClasses

NoTriple == [text |-> None, success |-> FALSE,
             meta |-> [context_type |-> "", duration_sec |-> 0, success |-> FALSE]]

GptStart(key, lib) ==
    [pc |-> "idle", key |-> key, lib |-> lib, context_type |-> "", elapsed |-> 0,
     provider |-> "none", result |-> NoTriple, error |-> "none",
     caller_cancelled |-> FALSE]

GptIdle == GptStart(<<>>, FALSE)

\* The environment lets _call_gpt reach the provider: the key passes the check
\* of line 182 and the import of line 187 succeeds.
ProviderUsable(g) == KeyConfigured(g.key) /\ g.lib

\* return None, False, metadata
Declined(g, meta_success) ==
    [g EXCEPT !.pc = "returned",
              !.result = [text |-> None, success |-> FALSE,
                          meta |-> [context_type |-> g.context_type,
                                    duration_sec |-> g.elapsed,
                                    success |-> meta_success]]]

\* An exception raised inside the try block of _call_gpt.
Raised(g, exc) ==
    IF _call_gpt_handles(exc)
    THEN Declined(g, FALSE)
    ELSE [g EXCEPT !.pc = "raised", !.error = exc]

Init ==
    /\ now = 0
    /\ _workout_cache = <<>>
    /\ _weekly_cache = <<>>
    /\ metrics = CoachMetrics
    /\ pending = [c \in Callers |-> NoRequest]
    /\ ret = NoCall
    /\ cleaned = NoCleanup
    /\ gpt = GptIdle
    /\ issued = 0

\* Caller c calls analyze_workout(workout, rag_result) or weekly_review(rag_result).
Submit(c, req) ==
    /\ pending[c].kind = "none"
    /\ issued < MaxRequests
    /\ issued' = issued + 1
    /\ pending' = [pending EXCEPT ![c] = req]
    /\ UNCHANGED <<now, _workout_cache, _weekly_cache, metrics, ret, cleaned, gpt>>

analyze_workout(c) ==
    /\ pending[c].kind = "workout"
    /\ \E latency \in LatencySamples :
       \E outcome \in EnrichOutcomes(CallBinds(analyze_workout_call_keywords,
                                               enrich_workout_analysis_params,
                                               enrich_workout_analysis_required),
                                     ProviderUsable(gpt)) :
          \E done \in {Cascade(c, _workout_cache, latency, outcome)} :
             /\ _workout_cache' = done.cache
             /\ metrics' = done.metrics
             /\ ret' = done.ret
             /\ cleaned' = done.cleaned
             /\ pending' = Others(c, done.ret)
    /\ UNCHANGED <<now, _weekly_cache, gpt, issued>>

weekly_review(c) ==
    /\ pending[c].kind = "weekly"
    /\ \E latency \in LatencySamples :
       \E outcome \in EnrichOutcomes(CallBinds(weekly_review_call_keywords,
                                               enrich_weekly_review_params,
                                               enrich_weekly_review_required),
                                     ProviderUsable(gpt)) :
          \E done \in {Cascade(c, _weekly_cache, latency, outcome)} :
             /\ _weekly_cache' = done.cache
             /\ metrics' = done.metrics
             /\ ret' = done.ret
             /\ cleaned' = done.cleaned
             /\ pending' = Others(c, done.ret)
    /\ UNCHANGED <<now, _workout_cache, gpt, issued>>

Tick ==
    /\ now < MaxTime
    /\ now' = now + 1
    /\ UNCHANGED <<_workout_cache, _weekly_cache, metrics, pending, ret, cleaned, gpt, issued>>

Next ==
    \/ \E c \in Callers : \E req \in WorkoutRequests \cup WeeklyRequests : Submit(c, req)
    \/ \E c \in Callers : analyze_workout(c)
    \/ \E c \in Callers : weekly_review(c)
    \/ Tick

Spec == Init /\ [][Next]_vars

(***************************************************************************)
(* The same handlers in each environment: EMERGENT_LLM_KEY absent, or set  *)
(* to a key the check accepts with the provider package installed.         *)
(***************************************************************************)
Environments == {GptStart(<<>>, TRUE), GptStart(<<"sk-emergent", "-1">>, TRUE)}

InitWired ==
    /\ now = 0
    /\ _workout_cache = <<>>
    /\ _weekly_cache = <<>>
    /\ metrics = CoachMetrics
    /\ pending = [c \in Callers |-> NoRequest]
    /\ ret = NoCall
    /\ cleaned = NoCleanup
    /\ gpt \in Environments
    /\ issued = 0

SpecWired == InitWired /\ [][Next]_vars

(***************************************************************************)
(* The cache layer on its own: _cleanup_cache and the write-then-cleanup   *)
(* pair applied to any dict of at most MAX_CACHE_SIZE + 2 entries, whose   *)
(* timestamps lie in the past.                                             *)
(***************************************************************************)
(***************************************************************************)
(* The service after a first request: one request has already missed,      *)
(* fallen back and stored its baseline at time 0.                          *)
(***************************************************************************)
WarmRequests == {r \in WorkoutRequests : r.workout.id = PyInt(1) /\ r.rag # <<>>}

InitWarm ==
    \E req \in WarmRequests : \E latency \in LatencySamples :
       LET written == write_and_cleanup(<<>>, KeyOf(req),
                                        fallback_value(Get(req.rag, "summary", "")), 0)
       IN /\ now = 0
          /\ _workout_cache = IF req.kind = "workout" THEN written ELSE <<>>
          /\ _weekly_cache = IF req.kind = "weekly" THEN written ELSE <<>>
          /\ metrics = _update_latency([count_request(CoachMetrics, req.kind)
                                           EXCEPT !.llm_fallback = @ + 1],
                                       latency, FALSE, FALSE)
          /\ pending = [c \in Callers |-> NoRequest]
          /\ ret = NoCall
          /\ cleaned = NoCleanup
          /\ gpt = GptIdle
          /\ issued = 0

SpecWarm == InitWarm /\ [][Next]_vars

(***************************************************************************)
(* The handlers on analyzer records with optional sub-fields missing.      *)
(***************************************************************************)
OptionalFields ==
    {"summary", "metrics", "comparison", "pace_str", "splits_analysis",
     "points_forts", "points_ameliorer"}

FullRag ==
    [summary |-> "seance",
     metrics |-> [km_total |-> PyInt(1)],
     comparison |-> [progression |-> "plus", evolution |-> "hausse"],
     pace_str |-> "5:30",
     splits_analysis |-> [regularite |-> "bonne"],
     points_forts |-> <<"allure">>,
     points_ameliorer |-> <<"cadence">>]

Without(rag_result, absent) == [f \in DOMAIN rag_result \ absent |-> rag_result[f]]

\* The complete record, the record without one sub-field, for each sub-field,
\* and the record without any.
FieldRags ==
    {FullRag, Without(FullRag, OptionalFields)}
    \cup {Without(FullRag, {f}) : f \in OptionalFields}

FieldRequests ==
    {[kind |-> k, workout |-> IF k = "workout" THEN [id |-> PyInt(1), type |-> PyStr("run")]
                              ELSE <<>>,
      rag |-> r, rival |-> NoRival] : k \in {"workout", "weekly"}, r \in FieldRags}

NextFields ==
    \/ \E req \in FieldRequests : Submit("a", req)
    \/ \E c \in Callers : analyze_workout(c)
    \/ \E c \in Callers : weekly_review(c)
    \/ Tick

SpecFields == Init /\ [][NextFields]_vars

CacheKeyNames == {"k" \o ToString(i) : i \in 1..(MAX_CACHE_SIZE + 2)}

CacheValue == [summary |-> "s", used_llm |-> FALSE]

AnyCaches(t) ==
    UNION {
        {c \in [1..n -> [key : CacheKeyNames, summary : {CacheValue.summary},
                         used_llm : {CacheValue.used_llm}, ts : 0..t]] :
            \A i, j \in 1..n : i # j => c[i].key # c[j].key}
        : n \in 0..(MAX_CACHE_SIZE + 2)}

InitCache ==
    /\ now \in 0..MaxTime
    /\ _workout_cache \in AnyCaches(now)
    /\ _weekly_cache = <<>>
    /\ metrics = CoachMetrics
    /\ pending = [c \in Callers |-> NoRequest]
    /\ ret = NoCall
    /\ cleaned = NoCleanup
    /\ gpt = GptIdle
    /\ issued = 0

\* _cleanup_cache(_workout_cache)
CleanupPass ==
    /\ cleaned' = [before |-> _workout_cache, after |-> _cleanup_cache(_workout_cache, now),
                   at |-> now]
    /\ _workout_cache' = _cleanup_cache(_workout_cache, now)
    /\ UNCHANGED <<now, _weekly_cache, metrics, pending, ret, gpt, issued>>

\* _workout_cache[k] = (value, time.time()); _cleanup_cache(_workout_cache)
CacheWrite(k) ==
    /\ cleaned' = [before |-> Store(_workout_cache, k, CacheValue, now),
                   after |-> write_and_cleanup(_workout_cache, k, CacheValue, now),
                   at |-> now]
    /\ _workout_cache' = write_and_cleanup(_workout_cache, k, CacheValue, now)
    /\ UNCHANGED <<now, _weekly_cache, metrics, pending, ret, gpt, issued>>

NextCache ==
    \/ CleanupPass
    \/ \E k \in CacheKeyNames : CacheWrite(k)
    \/ Tick

SpecCache == InitCache /\ [][NextCache]_vars

(***************************************************************************)
(* The enrichment boundary on its own: one call of _call_gpt by a caller   *)
(* that passes the arguments the function declares.  The key and the       *)
(* presence of the emergentintegrations package come from the environment. *)
(***************************************************************************)
InitGpt ==
    /\ now = 0
    /\ _workout_cache = <<>>
    /\ _weekly_cache = <<>>
    /\ metrics = CoachMetrics
    /\ pending = [c \in Callers |-> NoRequest]
    /\ ret = NoCall
    /\ cleaned = NoCleanup
    /\ gpt \in {GptStart(key, lib) : key \in KeyConfigs, lib \in BOOLEAN}
    /\ issued = 0

GptUnchanged ==
    UNCHANGED <<now, _workout_cache, _weekly_cache, metrics, pending, ret, cleaned, issued>>

\* _call_gpt up to its await: the key check, the import, the provider call.
_call_gpt(context_type) ==
    /\ gpt.pc = "idle"
    /\ LET g == [gpt EXCEPT !.context_type = context_type]
       IN gpt' = IF ~KeyConfigured(gpt.key)
                 THEN Declined(g, FALSE)
                 ELSE IF ~gpt.lib
                      THEN Raised(g, "ImportError")
                      ELSE [g EXCEPT !.pc = "awaiting", !.provider = "running"]
    /\ GptUnchanged

\* time passes while asyncio.wait_for waits
Elapse ==
    /\ gpt.pc = "awaiting"
    /\ gpt.elapsed < LLM_TIMEOUT
    /\ gpt' = [gpt EXCEPT !.elapsed = @ + 1]
    /\ GptUnchanged

\* chat.send_message returns in time
send_message_returns(response) ==
    /\ gpt.pc = "awaiting"
    /\ LET response_text == _clean_response(response)
           g == [gpt EXCEPT !.provider = "done"]
       IN gpt' = IF response_text # <<>>
                 THEN [g EXCEPT !.pc = "returned",
                                !.result = [text |-> Some(response_text), success |-> TRUE,
                                            meta |-> [context_type |-> g.context_type,
                                                      duration_sec |-> g.elapsed,
                                                      success |-> TRUE]]]
                 ELSE Declined(g, TRUE)
    /\ GptUnchanged

\* chat.send_message raises
send_message_raises ==
    /\ gpt.pc = "awaiting"
    /\ gpt' = Raised([gpt EXCEPT !.provider = "failed"], "ProviderError")
    /\ GptUnchanged

\* asyncio.wait_for gives up after LLM_TIMEOUT: it cancels the call and raises
wait_for_timeout ==
    /\ gpt.pc = "awaiting"
    /\ gpt.elapsed = LLM_TIMEOUT
    /\ gpt' = Raised([gpt EXCEPT !.provider = "cancelled"], "TimeoutError")
    /\ GptUnchanged

\* The task awaiting _call_gpt is cancelled: asyncio.wait_for cancels the call
\* it waits for and CancelledError is raised at the await.
cancel_caller ==
    /\ gpt.pc = "awaiting"
    /\ gpt' = Raised([gpt EXCEPT !.provider = "cancelled", !.caller_cancelled = TRUE],
                     "CancelledError")
    /\ GptUnchanged

NextGpt ==
    \/ \E context_type \in ContextTypes : _call_gpt(context_type)
    \/ Elapse
    \/ \E response \in Responses : send_message_returns(response)
    \/ send_message_raises
    \/ wait_for_timeout
    \/ cancel_caller

SpecGpt == InitGpt /\ [][NextGpt]_vars

(***************************************************************************)
(* get_metrics and reset_metrics.  A rate is a decimal fraction like the   *)
(* latency averages: 42.9 is [n |-> 429, e |-> 1].                         *)
(***************************************************************************)
MaxCount == 7

\* Variant of round_pct: the percentage cut to one decimal, not rounded.
round_pct_floor(num, den) == (1000 * num) \div den

\* round(num / den * 100, 1), in tenths of a percent: the nearest integer to
\* 1000 * num / den, an exact tie going to the even neighbour.
round_pct(num, den) ==
    LET q == (1000 * num) \div den
        r == (1000 * num) % den
    IN IF 2 * r < den THEN q
       ELSE IF 2 * r > den THEN q + 1
       ELSE IF q % 2 = 0 THEN q ELSE q + 1

rate(num, den) ==
    IF den > 0 THEN Norm([n |-> round_pct(num, den), e |-> 1]) ELSE Zero

get_metrics(m) ==
    LET total_llm == m.llm_success + m.llm_fallback
    IN [f \in DOMAIN m \cup {"llm_success_rate", "cache_hit_rate"} |->
           IF f = "llm_success_rate" THEN rate(m.llm_success, total_llm)
           ELSE IF f = "cache_hit_rate" THEN rate(m.cache_hits, m.total_requests)
           ELSE m[f]]

\* Variant of reset_metrics: the snapshot is taken after the new object is installed.
reset_metrics_late(m) == [old |-> get_metrics(CoachMetrics), metrics |-> CoachMetrics]

\* Variant of reset_metrics: only total_requests is set back.
reset_metrics_total_only(m) ==
    [old |-> get_metrics(m), metrics |-> [m EXCEPT !.total_requests = 0]]

\* old = get_metrics(); metrics = CoachMetrics(); return old
reset_metrics(m) == [old |-> get_metrics(m), metrics |-> CoachMetrics]

GetMetricsCall ==
    /\ ret' = [kind |-> "get_metrics", data |-> get_metrics(metrics), before |-> metrics]
    /\ UNCHANGED <<now, _workout_cache, _weekly_cache, metrics, pending, cleaned, gpt, issued>>

ResetMetricsCall ==
    /\ ret' = [kind |-> "reset_metrics", data |-> reset_metrics(metrics).old,
               before |-> metrics]
    /\ metrics' = reset_metrics(metrics).metrics
    /\ UNCHANGED <<now, _workout_cache, _weekly_cache, pending, cleaned, gpt, issued>>

\* get_metrics as a function of the metrics object: any counters with
\* cache_hits + llm_success + llm_fallback <= total_requests <= MaxCount.
AnyMetrics ==
    {[CoachMetrics EXCEPT !.total_requests = t, !.workout_requests = t,
                          !.cache_hits = h, !.llm_success = s, !.llm_fallback = f] :
        t \in 0..MaxCount, h \in 0..MaxCount, s \in 0..MaxCount, f \in 0..MaxCount}

InitRates ==
    /\ now = 0
    /\ _workout_cache = <<>>
    /\ _weekly_cache = <<>>
    /\ metrics \in {m \in AnyMetrics :
                        m.cache_hits + m.llm_success + m.llm_fallback <= m.total_requests}
    /\ pending = [c \in Callers |-> NoRequest]
    /\ ret = NoCall
    /\ cleaned = NoCleanup
    /\ gpt = GptIdle
    /\ issued = 0

NextRates ==
    \/ GetMetricsCall
    \/ ResetMetricsCall

SpecRates == InitRates /\ [][NextRates]_vars

(***************************************************************************)
(* chat_response, and the service with its operator calls: the three       *)
(* handlers, get_metrics and reset_metrics.  generate_template_response    *)
(* (chat_engine) is an outside collaborator: it returns a dict, returns a  *)
(* str, or raises.                                                         *)
(***************************************************************************)
enrich_chat_response_params ==
    {"user_message", "anonymized_context", "conversation_history", "user_id"}
enrich_chat_response_required ==
    {"user_message", "anonymized_context", "conversation_history"}
chat_response_call_keywords ==
    {"user_message", "context", "conversation_history", "user_id"}

ChatRequests == {[kind |-> "chat", workout |-> <<>>, rag |-> <<>>, rival |-> NoRival]}

TemplateOutcomes == {"dict", "str", "raises"}

TemplateText == "template"

ChatApology == "Desole, je n'ai pas pu traiter ta demande."

chat_response(c) ==
    /\ pending[c].kind = "chat"
    /\ \E latency \in LatencySamples :
       \E outcome \in EnrichOutcomes(CallBinds(chat_response_call_keywords,
                                               enrich_chat_response_params,
                                               enrich_chat_response_required),
                                     ProviderUsable(gpt)) :
       \E template \in TemplateOutcomes :
          LET counted == count_request(metrics, "chat")
              fallen == [counted EXCEPT !.llm_fallback = @ + 1]
              call == [NoCall EXCEPT !.kind = "chat", !.at = now, !.outcome = outcome]
          IN IF outcome = "enriched"
             THEN /\ metrics' = _update_latency([counted EXCEPT !.llm_success = @ + 1],
                                                latency, TRUE, FALSE)
                  /\ ret' = [call EXCEPT !.path = "llm", !.text = EnrichedText,
                                         !.used_llm = TRUE]
             ELSE IF Propagates(outcome)
             THEN /\ metrics' = counted
                  /\ ret' = [call EXCEPT !.path = "error", !.raised = TRUE]
             ELSE IF template = "raises"
             THEN /\ metrics' = fallen
                  /\ ret' = [call EXCEPT !.path = "apology", !.text = ChatApology]
             ELSE /\ metrics' = _update_latency(fallen, latency, FALSE, FALSE)
                  /\ ret' = [call EXCEPT !.path = "template", !.text = TemplateText]
    /\ pending' = [pending EXCEPT ![c] = NoRequest]
    /\ UNCHANGED <<now, _workout_cache, _weekly_cache, cleaned, gpt, issued>>

\* One request of each kind is enough to move every counter: repeated, it hits.
MetricsRequests ==
    {r \in WorkoutRequests : r.workout.id = PyInt(1) /\ r.rag = <<>>}
    \cup {r \in WeeklyRequests : r.rag = [metrics |-> [km_total |-> PyInt(1)]]}
    \cup ChatRequests

NextMetrics ==
    \/ \E c \in Callers : \E req \in MetricsRequests : Submit(c, req)
    \/ \E c \in Callers : analyze_workout(c)
    \/ \E c \in Callers : weekly_review(c)
    \/ \E c \in Callers : chat_response(c)
    \/ GetMetricsCall
    \/ ResetMetricsCall
    \/ Tick

SpecMetrics == Init /\ [][NextMetrics]_vars

(***************************************************************************)
(* analyze_workout called for two users.  The workouts agree on the fields *)
(* _cache_key reads and differ on max_heart_rate; each user's analyzer      *)
(* record carries that user's own summary.  user_id is a parameter the     *)
(* handler hands to the enrichment call and uses nowhere else.             *)
(***************************************************************************)
Users == {"A", "B"}

UserWorkouts ==
    {[id |-> PyInt(1), type |-> PyStr("run"), max_heart_rate |-> PyInt(h)] : h \in {180, 190}}

UserRequests ==
    {[kind |-> "workout", workout |-> w, rag |-> [summary |-> "seance de " \o u],
      rival |-> NoRival, user_id |-> u] : w \in UserWorkouts, u \in Users}

NextUsers ==
    \/ \E c \in Callers : \E req \in UserRequests : Submit(c, req)
    \/ \E c \in Callers : analyze_workout(c)
    \/ Tick

SpecUsers == Init /\ [][NextUsers]_vars

(***************************************************************************)
(* chat_response with its suspension point.  The enrichment call raises or *)
(* answers without suspending the handler (see the call sites above); the  *)
(* one await at which chat_response can be parked is the template call,    *)
(* reached after llm_fallback += 1.  Other requests, get_metrics and        *)
(* reset_metrics can run while it is parked there.                          *)
(***************************************************************************)
AwaitingTemplate(outcome) ==
    [kind |-> "chat_template", workout |-> <<>>, rag |-> <<>>, rival |-> NoRival,
     outcome |-> outcome]

\* Lines 275-301: up to `await generate_template_response(...)`, or to the
\* return of the enriched answer.
chat_response_until_await(c) ==
    /\ pending[c].kind = "chat"
    /\ \E latency \in LatencySamples :
       \E outcome \in EnrichOutcomes(CallBinds(chat_response_call_keywords,
                                               enrich_chat_response_params,
                                               enrich_chat_response_required),
                                     ProviderUsable(gpt)) :
          LET counted == count_request(metrics, "chat")
              call == [NoCall EXCEPT !.kind = "chat", !.at = now, !.outcome = outcome]
          IN IF outcome = "enriched"
             THEN /\ metrics' = _update_latency([counted EXCEPT !.llm_success = @ + 1],
                                                latency, TRUE, FALSE)
                  /\ ret' = [call EXCEPT !.path = "llm", !.text = EnrichedText,
                                         !.used_llm = TRUE]
                  /\ pending' = [pending EXCEPT ![c] = NoRequest]
             ELSE IF Propagates(outcome)
             THEN /\ metrics' = counted
                  /\ ret' = [call EXCEPT !.path = "error", !.raised = TRUE]
                  /\ pending' = [pending EXCEPT ![c] = NoRequest]
             ELSE /\ metrics' = [counted EXCEPT !.llm_fallback = @ + 1]
                  /\ ret' = [call EXCEPT !.path = "awaiting"]
                  /\ pending' = [pending EXCEPT ![c] = AwaitingTemplate(outcome)]
    /\ UNCHANGED <<now, _workout_cache, _weekly_cache, cleaned, gpt, issued>>

\* Lines 302-319: the template call has resolved.
chat_response_after_await(c) ==
    /\ pending[c].kind = "chat_template"
    /\ \E latency \in LatencySamples :
       \E template \in TemplateOutcomes :
          LET call == [NoCall EXCEPT !.kind = "chat", !.at = now,
                                     !.outcome = pending[c].outcome]
          IN IF template = "raises"
             THEN /\ metrics' = metrics
                  /\ ret' = [call EXCEPT !.path = "apology", !.text = ChatApology]
             ELSE /\ metrics' = _update_latency(metrics, latency, FALSE, FALSE)
                  /\ ret' = [call EXCEPT !.path = "template", !.text = TemplateText]
    /\ pending' = [pending EXCEPT ![c] = NoRequest]
    /\ UNCHANGED <<now, _workout_cache, _weekly_cache, cleaned, gpt, issued>>

NextAwait ==
    \/ \E c \in Callers : \E req \in MetricsRequests : Submit(c, req)
    \/ \E c \in Callers : analyze_workout(c)
    \/ \E c \in Callers : weekly_review(c)
    \/ \E c \in Callers : chat_response_until_await(c)
    \/ \E c \in Callers : chat_response_after_await(c)
    \/ GetMetricsCall
    \/ ResetMetricsCall
    \/ Tick

SpecAwait == Init /\ [][NextAwait]_vars

(***************************************************************************)
(* The handlers under the event loop's scheduling.  asyncio runs ready      *)
(* callbacks first in, first out, so a coroutine that has been created and  *)
(* is not waiting on a future is stepped after finitely many other steps:   *)
(* each caller's handler step is weakly fair.                               *)
(***************************************************************************)
NextLive ==
    \/ \E c \in Callers : \E req \in MetricsRequests \ ChatRequests : Submit(c, req)
    \/ \E c \in Callers : analyze_workout(c)
    \/ \E c \in Callers : weekly_review(c)
    \/ Tick

EventLoopSteps ==
    \A c \in Callers : WF_vars(analyze_workout(c)) /\ WF_vars(weekly_review(c))

SpecLive == Init /\ [][NextLive]_vars /\ EventLoopSteps

(***************************************************************************)
(* _cache_key as a function of its arguments: two records, each with any   *)
(* of the fields below present or absent, under one prefix.                *)
(***************************************************************************)
FieldValues ==
    [id |-> {PyInt(1), PyStr("1"), PyStr("")},
     distance_km |-> {PyInt(5)},
     type |-> {PyStr("run")},
     max_heart_rate |-> {PyInt(180), PyInt(190)}]

DataRecords ==
    UNION {{d \in [D -> UNION {FieldValues[x] : x \in D}] : \A x \in D : d[x] \in FieldValues[x]}
           : D \in SUBSET DOMAIN FieldValues}

Prefixes == {"workout", "weekly"}

\* One pair of records is keyed per run.
CacheKeyCall(a, b, prefix) ==
    /\ ret.kind = "none"
    /\ ret' = [kind |-> "cache_key", a |-> a, b |-> b, prefix |-> prefix,
               key_a |-> _cache_key(a, prefix), key_b |-> _cache_key(b, prefix)]
    /\ UNCHANGED <<now, _workout_cache, _weekly_cache, metrics, pending, cleaned, gpt, issued>>

NextKey == \E a \in DataRecords : \E b \in DataRecords : \E prefix \in Prefixes :
              CacheKeyCall(a, b, prefix)

SpecKey == Init /\ [][NextKey]_vars

(***************************************************************************)
(* training_engine.py.  The functions are pure; each is applied once to    *)
(* arguments drawn from the sets below.  An ACWR is counted in hundredths  *)
(* (1.3 is 130), a TSB in tenths (-20 is -200).                            *)
(***************************************************************************)
MaxWeeks == 20
MaxDays == 3

Hundredths(units, frac) == 100 * units + frac
Tenths1(units) == 10 * units

ACWR_SAFE_MIN == Hundredths(0, 80)
ACWR_SAFE_MAX == Hundredths(1, 30)
ACWR_DANGER == Hundredths(1, 50)
TSB_FATIGUE_THRESHOLD == Tenths1(-20)
TSB_FRESH_THRESHOLD == Tenths1(10)

AcwrSamples == {0, 70, 79, 80, 81, 100, 130, 131, 150, 151, 160}

TsbSamples == {-310, -301, -300, -250, -201, -200, -150, -101, -100, 0, 150}

Load7Samples == {0, 1, 3, 100, 200, 300, 326, 450}

Load28Samples == {0, 800, 1000, 1200}

\* Variant of compute_acwr: the quotient cut to two decimals, not rounded.
compute_acwr_truncated(load_7, load_28) ==
    IF load_28 = 0 THEN {Hundredths(1, 0)} ELSE {(400 * load_7) \div load_28}

\* round(load_7 / (load_28 / 4), 2), in hundredths.  When the quotient lies
\* exactly between two hundredths the binary value of the float decides which
\* one round() returns (round(0.015, 2) is 0.01, round(0.025, 2) is 0.03): both
\* are possible results here.
compute_acwr(load_7, load_28) ==
    IF load_28 = 0
    THEN {Hundredths(1, 0)}
    ELSE LET q == (400 * load_7) \div load_28
             r == (400 * load_7) % load_28
         IN IF 2 * r < load_28 THEN {q}
            ELSE IF 2 * r > load_28 THEN {q + 1}
            ELSE {q, q + 1}

\* Variant of evaluate_risk: the undertraining test comes last.
evaluate_risk_moderate_first(acwr, tsb) ==
    IF acwr > ACWR_DANGER \/ tsb < Tenths1(-30) THEN "critical"
    ELSE IF acwr > ACWR_SAFE_MAX \/ tsb < TSB_FATIGUE_THRESHOLD THEN "high"
    ELSE IF tsb < Tenths1(-10) THEN "moderate"
    ELSE "low"

evaluate_risk(acwr, tsb) ==
    IF acwr > ACWR_DANGER \/ tsb < Tenths1(-30) THEN "critical"
    ELSE IF acwr > ACWR_SAFE_MAX \/ tsb < TSB_FATIGUE_THRESHOLD THEN "high"
    ELSE IF acwr < ACWR_SAFE_MIN THEN "low"
    ELSE IF tsb < Tenths1(-10) THEN "moderate"
    ELSE "low"

\* Variant of determine_phase: the deload tests come before race and taper.
determine_phase_deload_first(week, total_weeks) ==
    IF week = total_weeks \div 2 THEN "deload"
    ELSE IF week > 4 /\ week % 4 = 0 THEN "deload"
    ELSE IF week >= total_weeks THEN "race"
    ELSE IF week >= total_weeks - 2 THEN "taper"
    ELSE IF 10 * week < 6 * total_weeks THEN "build"
    ELSE "intensification"

\* Variant of determine_phase: week <= total_weeks * 0.6 is still build.
determine_phase_build_inclusive(week, total_weeks) ==
    IF week >= total_weeks THEN "race"
    ELSE IF week >= total_weeks - 2 THEN "taper"
    ELSE IF week = total_weeks \div 2 THEN "deload"
    ELSE IF week > 4 /\ week % 4 = 0 THEN "deload"
    ELSE IF 10 * week <= 6 * total_weeks THEN "build"
    ELSE "intensification"

\* week < total_weeks * 0.6 is 10 * week < 6 * total_weeks on integers.
determine_phase(week, total_weeks) ==
    IF week >= total_weeks THEN "race"
    ELSE IF week >= total_weeks - 2 THEN "taper"
    ELSE IF week = total_weeks \div 2 THEN "deload"
    ELSE IF week > 4 /\ week % 4 = 0 THEN "deload"
    ELSE IF 10 * week < 6 * total_weeks THEN "build"
    ELSE "intensification"

\* Daily loads are counted in tenths (10 is 1.0, 1 is 0.1): lists of up to
\* MaxDays samples.  A whole number of units is exact as a float; a tenth is
\* not.
LoadSamples == {0, 1, 10, 30}

DailyLoads == UNION {[1..n -> LoadSamples] : n \in 0..MaxDays}

RECURSIVE sum(_)
sum(xs) == IF xs = <<>> THEN 0 ELSE Head(xs) + sum(Tail(xs))

Squares(xs) == [i \in DOMAIN xs |-> xs[i] * xs[i]]

IsWhole(x) == x % 10 = 0

\* A value of compute_monotony: a ratio in hundredths, or the quotient of the
\* mean by a standard deviation of one rounding error (of order 1e15).
Ratio(h) == [blown |-> FALSE, hundredths |-> h]
BlownUp == [blown |-> TRUE, hundredths |-> 0]

\* round(q, 2) in hundredths for q = s / sqrt(d), s >= 0 and d > 0: the h with
\* h - 1/2 <= 100 * q <= h + 1/2, that is (2h-1)^2 * d <= (200s)^2 <=
\* (2h+1)^2 * d; both neighbours on an exact tie.
round_ratio(s, d) ==
    LET x == (200 * s) * (200 * s)
        lo == x \div d
        hi == IF x % d = 0 THEN x \div d ELSE x \div d + 1
    IN {h \in 0..(100 * s + 1) :
           /\ h > 0 => (2 * h - 1) * (2 * h - 1) <= lo
           /\ (2 * h + 1) * (2 * h + 1) >= hi}

\* avg / std is s / sqrt(d) for s the sum and d = n * (sum of squares) - s^2;
\* d = 0 exactly when all samples are equal.  In floats std is 0 then only if
\* sum(daily_loads) / len(daily_loads) gives the sample back: it does for whole
\* samples; for others the rounding of the sum decides ([1.1]*3 gives 0,
\* [0.1]*3 gives 7205759403792795.0).
compute_monotony(daily_loads) ==
    LET n == Len(daily_loads)
        s == sum(daily_loads)
        d == n * sum(Squares(daily_loads)) - s * s
    IN IF n < 2 THEN {Ratio(0)}
       ELSE IF d = 0
            THEN IF IsWhole(daily_loads[1]) THEN {Ratio(0)} ELSE {Ratio(0), BlownUp}
       ELSE {Ratio(h) : h \in round_ratio(s, d)}

\* round(ctl - atl, 1) in tenths; ctl and atl are whole numbers here, for which
\* the difference is exact.
compute_tsb(ctl, atl) == Tenths1(ctl - atl)

\* round(weekly_load * monotony, 0): the nearest whole number to
\* weekly_load * hundredths / 100, both neighbours on an exact tie.
compute_strain(weekly_load, monotony) ==
    IF monotony.blown THEN {BlownUp}
    ELSE LET p == weekly_load * monotony.hundredths
             q == p \div 100
             r == p % 100
         IN IF r < 50 THEN {Ratio(100 * q)}
            ELSE IF r > 50 THEN {Ratio(100 * (q + 1))}
            ELSE {Ratio(100 * q), Ratio(100 * (q + 1))}

\* fitness_data: a dict with any of load_7, load_28, ctl, atl.
FitnessFields ==
    [load_7 |-> {0, 300, 600}, load_28 |-> {0, 1200}, ctl |-> {40, 60}, atl |-> {45}]

FitnessData ==
    UNION {[present -> UNION {FitnessFields[f] : f \in present}] :
              present \in SUBSET DOMAIN FitnessFields}

FitnessRecords ==
    {d \in FitnessData : \A f \in DOMAIN d : d[f] \in FitnessFields[f]}

WeeklyKmSamples == {0, 30}

ContextLoads == {<<>>, <<10, 30>>, <<1, 1>>}

\* The contexts build_training_context can return for its arguments: one per
\* result of compute_acwr and, with daily loads, of compute_monotony and
\* compute_strain.
build_training_context(fitness_data, weekly_km, daily_loads) ==
    LET load_7 == Get(fitness_data, "load_7", 300)
        load_28 == Get(fitness_data, "load_28", 1200)
        ctl == Get(fitness_data, "ctl", 40)
        atl == Get(fitness_data, "atl", 45)
        tsb == compute_tsb(ctl, atl)
        context(acwr) ==
            [ctl |-> ctl, atl |-> atl, tsb |-> tsb, acwr |-> acwr,
             weekly_km |-> weekly_km, load_7 |-> load_7, load_28 |-> load_28]
        risk(acwr) == [risk_level |-> evaluate_risk(acwr, tsb)]
    IN IF daily_loads # <<>>
       THEN {context(acwr) @@ [monotony |-> m, strain |-> s] @@ risk(acwr) :
                <<acwr, m, s>> \in
                    {t \in compute_acwr(load_7, load_28)
                             \X compute_monotony(daily_loads)
                             \X UNION {compute_strain(load_7, m) :
                                          m \in compute_monotony(daily_loads)} :
                        t[3] \in compute_strain(load_7, t[2])}}
       ELSE {context(acwr) @@ risk(acwr) : acwr \in compute_acwr(load_7, load_28)}

\* A float that is v / scale up to its rounding error; exact says there is no
\* error.  Multipliers are counted in hundredths; a product is exact when both
\* factors are and the multiplier is exact in binary (0.75, 1.0) or the other
\* factor is 0.
Float(v) == [v |-> v, scale |-> 1, exact |-> TRUE]

ExactInBinary(c) == c \in {25, 50, 75, 100}

times(x, c) ==
    [v |-> x.v * c, scale |-> x.scale * 100,
     exact |-> x.v = 0 \/ (x.exact /\ ExactInBinary(c))]

\* int(x) for x >= 0: the whole part.  An inexact float whose true value is a
\* whole number n > 0 may lie just below it (120 * 0.75 * 0.70 is
\* 62.99999999999999) and give n - 1.
int(x) ==
    IF x.v % x.scale = 0 /\ ~x.exact
    THEN {x.v \div x.scale, x.v \div x.scale - 1}
    ELSE {x.v \div x.scale}

Phases == {"build", "deload", "intensification", "taper", "race"}

\* Variant of adjust_load_by_fatigue: the TSB tests are elif branches of the
\* ACWR tests.
adjust_load_by_fatigue_single(base_load, tsb, acwr) ==
    IF acwr > ACWR_DANGER THEN times(base_load, 70)
    ELSE IF acwr > ACWR_SAFE_MAX THEN times(base_load, 85)
    ELSE IF tsb < TSB_FATIGUE_THRESHOLD THEN times(base_load, 90)
    ELSE IF tsb > TSB_FRESH_THRESHOLD THEN times(base_load, 105)
    ELSE base_load

\* Variant of adjust_load_by_fatigue: only the TSB tests are applied.
adjust_load_by_fatigue_tsb_only(base_load, tsb, acwr) ==
    IF tsb < TSB_FATIGUE_THRESHOLD THEN times(base_load, 90)
    ELSE IF tsb > TSB_FRESH_THRESHOLD THEN times(base_load, 105)
    ELSE base_load

adjust_load_by_fatigue(base_load, tsb, acwr) ==
    LET adjusted == IF acwr > ACWR_DANGER THEN times(base_load, 70)
                    ELSE IF acwr > ACWR_SAFE_MAX THEN times(base_load, 85)
                    ELSE base_load
    IN IF tsb < TSB_FATIGUE_THRESHOLD THEN times(adjusted, 90)
       ELSE IF tsb > TSB_FRESH_THRESHOLD THEN times(adjusted, 105)
       ELSE adjusted

load_phase_multipliers ==
    [build |-> 105, deload |-> 75, intensification |-> 110, taper |-> 65, race |-> 30]

determine_target_load(context, phase) ==
    LET ctl == Get(context, "ctl", 40)
        multiplier == Get(load_phase_multipliers, phase, 100)
        base == times(Float(ctl), multiplier)
        adjusted == adjust_load_by_fatigue(base, Get(context, "tsb", 0),
                                           Get(context, "acwr", Hundredths(1, 0)))
    IN int(adjusted)

\* context: a dict with any of ctl, tsb, acwr, weekly_km.
ContextFields ==
    [ctl |-> {0, 40, 41, 120},
     tsb |-> {-250, -200, 0, 100, 150},
     acwr |-> {100, 130, 140, 150, 160},
     weekly_km |-> {0, 5, 30}]

Contexts(fields) ==
    {c \in UNION {[present -> UNION {ContextFields[f] : f \in present}] :
                     present \in SUBSET fields} :
        \A f \in DOMAIN c : c[f] \in ContextFields[f]}

PhaseArgs == Phases \cup {"peak"}

\* round(x, 1) in tenths for x >= 0: the nearest tenth, both neighbours on an
\* exact tie (the rounding error of the float decides).
round1(x) ==
    LET q == (10 * x.v) \div x.scale
        r == (10 * x.v) % x.scale
    IN IF 2 * r < x.scale THEN {q}
       ELSE IF 2 * r > x.scale THEN {q + 1}
       ELSE {q, q + 1}

km_phase_multipliers ==
    [build |-> 105, deload |-> 75, intensification |-> 100, taper |-> 60, race |-> 25]

Goals == {"5K", "10K", "SEMI", "MARATHON", "ULTRA"}

GoalArgs == Goals \cup {"TRAIL"}

\* Variant of determine_target_km: the reduction applies from acwr = 1.3 on.
determine_target_km_inclusive(context, phase, goal) ==
    LET weekly_km == Get(context, "weekly_km", 30)
        multiplier == Get(km_phase_multipliers, phase, 100)
        target == times(Float(weekly_km), multiplier)
        acwr == Get(context, "acwr", Hundredths(1, 0))
    IN round1(IF acwr >= ACWR_SAFE_MAX THEN times(target, 85) ELSE target)

\* The target in tenths of a km; goal is not read.
determine_target_km(context, phase, goal) ==
    LET weekly_km == Get(context, "weekly_km", 30)
        multiplier == Get(km_phase_multipliers, phase, 100)
        target == times(Float(weekly_km), multiplier)
        acwr == Get(context, "acwr", Hundredths(1, 0))
    IN round1(IF acwr > ACWR_SAFE_MAX THEN times(target, 85) ELSE target)

\* long_run_ratio in hundredths, intensity_pct in percent.
GOAL_CONFIG ==
    [5K |-> [cycle_weeks |-> 6, long_run_ratio |-> 25, intensity_pct |-> 20],
     10K |-> [cycle_weeks |-> 8, long_run_ratio |-> 30, intensity_pct |-> 18],
     SEMI |-> [cycle_weeks |-> 12, long_run_ratio |-> 35, intensity_pct |-> 15],
     MARATHON |-> [cycle_weeks |-> 16, long_run_ratio |-> 40, intensity_pct |-> 12],
     ULTRA |-> [cycle_weeks |-> 20, long_run_ratio |-> 45, intensity_pct |-> 10]]

phases_fr ==
    [build |-> [name |-> "Construction", intensity_pct |-> 15,
                advice |-> "sorties longues"],
     deload |-> [name |-> "Recuperation", intensity_pct |-> 10,
                 advice |-> "sorties courtes"],
     intensification |-> [name |-> "Intensification", intensity_pct |-> 25,
                          advice |-> "allure course"],
     taper |-> [name |-> "Affutage", intensity_pct |-> 20,
                advice |-> "rappels de vitesse"],
     race |-> [name |-> "Course", intensity_pct |-> 0,
               advice |-> "footing leger"]]

get_phase_description(phase) == Get(phases_fr, phase, phases_fr["build"])

\* A target of t tenths of a km as a float.
Km(t) == [v |-> t, scale |-> 10, exact |-> TRUE]

\* Variant of distribution: easy_km is what the long run leaves.
distribution_without_intensity(target_km, goal_config) ==
    {[long_run_km |-> l, easy_km |-> e, intensity_km |-> i] :
        <<l, e, i>> \in
            round1(times(Km(target_km), goal_config.long_run_ratio))
            \X round1(times(Km(target_km), 100 - goal_config.long_run_ratio))
            \X round1(times(Km(target_km), goal_config.intensity_pct))}

\* The three parts in tenths of a km, each rounded on its own; target_km >= 0
\* and the ratios of a goal never sum above 1.
distribution(target_km, goal_config) ==
    {[long_run_km |-> l, easy_km |-> e, intensity_km |-> i] :
        <<l, e, i>> \in
            round1(times(Km(target_km), goal_config.long_run_ratio))
            \X round1(times(Km(target_km),
                            100 - goal_config.long_run_ratio - goal_config.intensity_pct))
            \X round1(times(Km(target_km), goal_config.intensity_pct))}

generate_week_recommendation(context, phase, goal) ==
    LET goal_config == Get(GOAL_CONFIG, goal, GOAL_CONFIG["10K"])
        phase_info == get_phase_description(phase)
    IN {[phase |-> phase, phase_info |-> phase_info, target_load |-> target_load,
         target_km |-> target_km, distribution |-> d,
         risk_level |-> Get(context, "risk_level", "low"),
         acwr |-> Get(context, "acwr", Hundredths(1, 0)),
         tsb |-> Get(context, "tsb", 0),
         advice |-> phase_info.advice] :
           <<target_load, target_km, d>> \in
               {t \in determine_target_load(context, phase)
                        \X determine_target_km(context, phase, goal)
                        \X UNION {distribution(k, goal_config) :
                                     k \in determine_target_km(context, phase, goal)} :
                   t[3] \in distribution(t[2], goal_config)}}

\* Contexts as build_training_context leaves them, risk_level included or not.
RecommendationContexts ==
    LET base == Contexts({"weekly_km", "acwr"})
    IN base \cup {c @@ [risk_level |-> "high"] : c \in base}

ComputeAcwrCall(load_7, load_28) ==
    /\ ret.kind = "none"
    /\ \E out \in compute_acwr(load_7, load_28) :
          ret' = [kind |-> "compute_acwr", load_7 |-> load_7, load_28 |-> load_28,
                  out |-> out]
    /\ UNCHANGED <<now, _workout_cache, _weekly_cache, metrics, pending, cleaned, gpt, issued>>

EvaluateRiskCall(acwr, tsb) ==
    /\ ret.kind = "none"
    /\ ret' = [kind |-> "evaluate_risk", acwr |-> acwr, tsb |-> tsb,
               out |-> evaluate_risk(acwr, tsb)]
    /\ UNCHANGED <<now, _workout_cache, _weekly_cache, metrics, pending, cleaned, gpt, issued>>

DeterminePhaseCall(week, total_weeks) ==
    /\ ret.kind = "none"
    /\ ret' = [kind |-> "determine_phase", week |-> week, total_weeks |-> total_weeks,
               out |-> determine_phase(week, total_weeks)]
    /\ UNCHANGED <<now, _workout_cache, _weekly_cache, metrics, pending, cleaned, gpt, issued>>

ComputeMonotonyCall(daily_loads) ==
    /\ ret.kind = "none"
    /\ \E out \in compute_monotony(daily_loads) :
          ret' = [kind |-> "compute_monotony", daily_loads |-> daily_loads, out |-> out]
    /\ UNCHANGED <<now, _workout_cache, _weekly_cache, metrics, pending, cleaned, gpt, issued>>

BuildTrainingContextCall(fitness_data, weekly_km, daily_loads) ==
    /\ ret.kind = "none"
    /\ \E out \in build_training_context(fitness_data, weekly_km, daily_loads) :
          ret' = [kind |-> "build_training_context", fitness_data |-> fitness_data,
                  weekly_km |-> weekly_km, daily_loads |-> daily_loads, out |-> out]
    /\ UNCHANGED <<now, _workout_cache, _weekly_cache, metrics, pending, cleaned, gpt, issued>>

DetermineTargetLoadCall(context, phase) ==
    /\ ret.kind = "none"
    /\ \E out \in determine_target_load(context, phase) :
          ret' = [kind |-> "determine_target_load", context |-> context,
                  phase |-> phase, out |-> out]
    /\ UNCHANGED <<now, _workout_cache, _weekly_cache, metrics, pending, cleaned, gpt, issued>>

DetermineTargetKmCall(context, phase, goal) ==
    /\ ret.kind = "none"
    /\ \E out \in determine_target_km(context, phase, goal) :
          ret' = [kind |-> "determine_target_km", context |-> context,
                  phase |-> phase, goal |-> goal, out |-> out]
    /\ UNCHANGED <<now, _workout_cache, _weekly_cache, metrics, pending, cleaned, gpt, issued>>

GenerateWeekRecommendationCall(context, phase, goal) ==
    /\ ret.kind = "none"
    /\ \E out \in generate_week_recommendation(context, phase, goal) :
          ret' = [kind |-> "generate_week_recommendation", context |-> context,
                  phase |-> phase, goal |-> goal, out |-> out]
    /\ UNCHANGED <<now, _workout_cache, _weekly_cache, metrics, pending, cleaned, gpt, issued>>

NextEngine ==
    \/ \E load_7 \in Load7Samples : \E load_28 \in Load28Samples :
          ComputeAcwrCall(load_7, load_28)
    \/ \E acwr \in AcwrSamples : \E tsb \in TsbSamples : EvaluateRiskCall(acwr, tsb)
    \/ \E week \in -1..(MaxWeeks + 2) : \E total_weeks \in 0..MaxWeeks :
          DeterminePhaseCall(week, total_weeks)
    \/ \E daily_loads \in DailyLoads : ComputeMonotonyCall(daily_loads)
    \/ \E fitness_data \in FitnessRecords : \E weekly_km \in WeeklyKmSamples :
          \E daily_loads \in ContextLoads :
             BuildTrainingContextCall(fitness_data, weekly_km, daily_loads)
    \/ \E context \in Contexts({"ctl", "tsb", "acwr"}) : \E phase \in PhaseArgs :
          DetermineTargetLoadCall(context, phase)
    \/ \E context \in Contexts({"weekly_km", "acwr"}) : \E phase \in PhaseArgs :
          \E goal \in GoalArgs : DetermineTargetKmCall(context, phase, goal)
    \/ \E context \in RecommendationContexts : \E phase \in PhaseArgs :
          \E goal \in GoalArgs : GenerateWeekRecommendationCall(context, phase, goal)

SpecEngine == Init /\ [][NextEngine]_vars

(***************************************************************************)
(* Properties of the cascade.                                              *)
(***************************************************************************)
\* A step in which a request body ran.
IsCall == metrics'.total_requests = metrics.total_requests + 1

CacheOf(kind) == IF kind = "workout" THEN _workout_cache ELSE _weekly_cache

Baseline(rag_result) == IF "summary" \in DOMAIN rag_result THEN rag_result.summary ELSE ""

\* C1: a request that misses the cache and whose enrichment attempt does not
\* deliver text returns (the summary of its rag_result, False), stores nothing
\* else, and raises nothing.
C1_MissDegradesToBaseline ==
    (ret.path \notin {"none", "hit"} /\ ret.outcome # "enriched")
        => /\ ret.raised = FALSE
           /\ ret.path = "fallback"
           /\ ret.text = Baseline(ret.rag)
           /\ ret.used_llm = FALSE

C1_Witness ==
    /\ ret.path = "fallback"
    /\ ret.outcome = "TypeError"
    /\ ret.text = "seance"
    /\ ret.raised = FALSE

\* C2: when a request that missed is followed, within the TTL, by a request for
\* the same cache and key, the second is served from the cache: it makes no
\* enrichment attempt (one attempt in total) and returns the first one's text and
\* flag.
C2_SecondCallServedFromCache ==
    [][(/\ IsCall
        /\ ret.path \in {"llm", "fallback"}
        /\ ret'.kind = ret.kind
        /\ ret'.key = ret.key
        /\ now - ret.at < CACHE_TTL_SECONDS)
       => /\ ret'.path = "hit"
          /\ ret'.outcome = "none"
          /\ ret'.text = ret.text
          /\ ret'.used_llm = ret.used_llm
          /\ metrics'.llm_success + metrics'.llm_fallback
                = metrics.llm_success + metrics.llm_fallback]_vars

C2_Witness ==
    /\ ret.path = "hit"
    /\ ret.text # Baseline(ret.rag)
    /\ ret.at - ret.prior < CACHE_TTL_SECONDS
    /\ metrics.total_requests = 2
    /\ metrics.llm_success + metrics.llm_fallback = 1
    /\ metrics.cache_hits = 1

\* C3: a lookup is a hit, returning the stored text and flag, exactly when the key
\* is present and now - createdAt < CACHE_TTL_SECONDS; otherwise, also when the
\* key is present with an older entry, the request goes on to the enrichment stage.
C3_LookupHonoursTTL ==
    [][IsCall =>
        LET cache == CacheOf(ret'.kind)
            present == ret'.key \in Keys(cache)
            fresh == present /\ (now - Lookup(cache, ret'.key).ts) < CACHE_TTL_SECONDS
        IN /\ (ret'.path = "hit") <=> fresh
           /\ fresh => /\ ret'.text = Lookup(cache, ret'.key).summary
                       /\ ret'.used_llm = Lookup(cache, ret'.key).used_llm
                       /\ ret'.outcome = "none"
           /\ ~fresh => ret'.outcome # "none"]_vars

C3_Witness ==
    /\ ret.path = "fallback"
    /\ ret.prior >= 0
    /\ ret.at - ret.prior >= CACHE_TTL_SECONDS

\* C4: between requests each cache holds at most MAX_CACHE_SIZE entries.
C4_CachesWithinCapacity ==
    /\ Len(_workout_cache) <= MAX_CACHE_SIZE
    /\ Len(_weekly_cache) <= MAX_CACHE_SIZE

C4_Witness ==
    /\ Len(cleaned.before) = MAX_CACHE_SIZE + 1
    /\ ret.kind = "weekly"
    /\ _weekly_cache = cleaned.after
    /\ Len(_weekly_cache) = MAX_CACHE_SIZE

\* C7: a request that passes the cache check as a miss while another request for
\* the same fingerprint is outstanding invokes the enrichment provider (its call
\* is bound and awaited), so that two such requests each invoke it.
C7_ConcurrentMissesInvokeProvider ==
    (ret.path \notin {"none", "hit"} /\ ret.rivals > 0)
        => ret.outcome \in {"enriched", "declined"}

\* The provider is in fact never invoked by a request.
ProviderNeverInvoked == ret.outcome \in {"none", "TypeError"}

\* C8: the last writer wins: after a request has stored a value under its key,
\* the entry under that key is exactly that value with that request's timestamp,
\* whatever a racing request stored there before; and a request that hits after
\* a racing request wrote finds that request's value and timestamp.
C8_LastWriterWins ==
    /\ ret.stored.wrote =>
          /\ ret.key \in Keys(CacheOf(ret.kind))
          /\ Lookup(CacheOf(ret.kind), ret.key)
                = [key |-> ret.key, summary |-> ret.stored.summary,
                   used_llm |-> ret.stored.used_llm, ts |-> ret.at]
    /\ (ret.path = "hit" /\ ret.rival.wrote) =>
          /\ ret.key \in Keys(CacheOf(ret.kind))
          /\ Lookup(CacheOf(ret.kind), ret.key)
                = [key |-> ret.key, summary |-> ret.rival.summary,
                   used_llm |-> ret.rival.used_llm, ts |-> ret.rival.at]

C8_Witness ==
    /\ ret.stored.wrote
    /\ ret.rival.wrote
    /\ ret.at > ret.rival.at
    /\ ret.stored.summary # ret.rival.summary
    /\ Lookup(CacheOf(ret.kind), ret.key).summary = ret.stored.summary

RacingWrites == ret.stored.wrote /\ ret.rival.wrote

SameValue ==
    /\ ret.stored.summary = ret.rival.summary
    /\ ret.stored.used_llm = ret.rival.used_llm

\* C9 as stated: two requests racing on one cache key write the same summary
\* text and the same used_llm flag.
C9_RacingWritesEqual == RacingWrites => SameValue

\* C9 as amended: each of two racing requests writes the summary of its own
\* rag_result with used_llm = False, so the two values are equal exactly when the
\* two rag_result summaries are.
C9_RacingWritesFollowRag ==
    RacingWrites =>
        /\ ret.stored.summary = Baseline(ret.rag) /\ ~ret.stored.used_llm
        /\ ret.rival.summary = Baseline(ret.rival.rag) /\ ~ret.rival.used_llm
        /\ SameValue <=> (Baseline(ret.rag) = Baseline(ret.rival.rag))

C9_Witness ==
    /\ RacingWrites
    /\ Baseline(ret.rag) # Baseline(ret.rival.rag)
    /\ ~SameValue

(***************************************************************************)
(* Properties of a cleanup pass, read off `cleaned`.                       *)
(***************************************************************************)
Entries(c) == {c[i] : i \in 1..Len(c)}

ValidAt(e, t) == (t - e.ts) < CACHE_TTL_SECONDS

ValidIn(c, t) == {e \in Entries(c) : ValidAt(e, t)}

\* a keeps the order of b
KeepsOrder(a, b) ==
    \A i, j \in 1..Len(a) : i < j => IndexOf(b, a[i].key) < IndexOf(b, a[j].key)

NonDecreasing(c) == \A i, j \in 1..Len(c) : i < j => c[i].ts <= c[j].ts

\* C5: when more than MAX_CACHE_SIZE unexpired entries are left, a pass evicts
\* exactly the excess, leaves MAX_CACHE_SIZE, and every survivor is at least as
\* recent as every evicted entry; after MAX_CACHE_SIZE + 1 insertions of distinct
\* keys, all within TTL, the entry removed is the first inserted.
C5_EvictsOldestFirst ==
    LET b == cleaned.before
        a == cleaned.after
        valid == ValidIn(b, cleaned.at)
        evicted == valid \ Entries(a)
    IN /\ (Len(b) > MAX_CACHE_SIZE /\ Cardinality(valid) > MAX_CACHE_SIZE) =>
            /\ Len(a) = MAX_CACHE_SIZE
            /\ Entries(a) \subseteq valid
            /\ KeepsOrder(a, b)
            /\ Cardinality(evicted) = Cardinality(valid) - MAX_CACHE_SIZE
            /\ \A e \in evicted : \A x \in Entries(a) : x.ts >= e.ts
       /\ (Len(b) = MAX_CACHE_SIZE + 1 /\ valid = Entries(b) /\ NonDecreasing(b)) =>
            a = Tail(b)

C5_Witness ==
    LET b == cleaned.before
        a == cleaned.after
    IN /\ Len(b) = MAX_CACHE_SIZE + 2
       /\ ValidIn(b, cleaned.at) = Entries(b)
       /\ ~NonDecreasing(b)
       /\ Len(a) = MAX_CACHE_SIZE
       /\ \E e \in Entries(b) \ Entries(a) : \E x \in Entries(a) : x.ts > e.ts

\* C6: a pass on at most MAX_CACHE_SIZE entries removes nothing, expired entries
\* included; a pass on more removes every expired entry, and evicts unexpired
\* ones only when more than MAX_CACHE_SIZE of them are left, so a pass that
\* evicts an unexpired entry leaves no expired one.
C6_ExpiredFirstThenOldest ==
    LET b == cleaned.before
        a == cleaned.after
        valid == ValidIn(b, cleaned.at)
    IN /\ Len(b) <= MAX_CACHE_SIZE => a = b
       /\ Len(b) > MAX_CACHE_SIZE => ValidIn(a, cleaned.at) = Entries(a)
       /\ (Len(b) > MAX_CACHE_SIZE /\ Cardinality(valid) <= MAX_CACHE_SIZE) =>
            /\ Entries(a) = valid
            /\ KeepsOrder(a, b)
       /\ (valid \ Entries(a) # {}) => ValidIn(a, cleaned.at) = Entries(a)

C6_Witness ==
    LET b == cleaned.before
        a == cleaned.after
        valid == ValidIn(b, cleaned.at)
    IN /\ Len(b) > MAX_CACHE_SIZE
       /\ valid # Entries(b)
       /\ valid \ Entries(a) # {}
       /\ Len(a) = MAX_CACHE_SIZE

\* A pass below capacity that keeps an expired entry.
ExpiredKeptBelowCapacity ==
    /\ cleaned.before # <<>>
    /\ Len(cleaned.before) <= MAX_CACHE_SIZE
    /\ ValidIn(cleaned.after, cleaned.at) # Entries(cleaned.after)

CacheAfter(kind) == IF kind = "workout" THEN _workout_cache' ELSE _weekly_cache'

BaselineEntry(r, t) ==
    [key |-> r.key, summary |-> Baseline(r.rag), used_llm |-> FALSE, ts |-> t]

\* C11 as stated: a request that misses while the provider is usable and does
\* not decline returns (enriched text, True), stores that text with used_llm =
\* True under its key at the current time, and adds one to llm_success and
\* nothing to llm_fallback.
C11_MissEnrichesWhenProviderAble ==
    [][(/\ IsCall
        /\ ProviderUsable(gpt)
        /\ ret'.path # "hit"
        /\ ret'.outcome # "declined")
       => /\ ret'.path = "llm"
          /\ ret'.text = EnrichedText
          /\ ret'.used_llm
          /\ ret'.key \in Keys(CacheAfter(ret'.kind))
          /\ Lookup(CacheAfter(ret'.kind), ret'.key)
                = [key |-> ret'.key, summary |-> EnrichedText, used_llm |-> TRUE, ts |-> now]
          /\ metrics'.llm_success = metrics.llm_success + 1
          /\ metrics'.llm_fallback = metrics.llm_fallback]_vars

\* C12: a request that misses and gets no enriched text has one outcome, whether
\* no provider is configured or a configured one failed: it raises nothing,
\* returns (baseline, False), writes the baseline under its key at the current
\* time, adds one to llm_fallback and nothing to llm_success.
C12_NoProviderSameAsFailure ==
    [][(/\ IsCall
        /\ ret'.path # "hit"
        /\ ret'.outcome # "enriched")
       => /\ ret'.raised = FALSE
          /\ ret'.text = Baseline(ret'.rag)
          /\ ret'.used_llm = FALSE
          /\ ret'.stored = [wrote |-> TRUE, summary |-> Baseline(ret'.rag), used_llm |-> FALSE]
          /\ ret'.key \in Keys(CacheAfter(ret'.kind))
          /\ Lookup(CacheAfter(ret'.kind), ret'.key) = BaselineEntry(ret', now)
          /\ metrics'.llm_fallback = metrics.llm_fallback + 1
          /\ metrics'.llm_success = metrics.llm_success]_vars

C12_Witness ==
    /\ ~ProviderUsable(gpt)
    /\ ret.path = "fallback"
    /\ ret.kind = "weekly"
    /\ ret.text = "bilan"
    /\ metrics.llm_fallback = 1
    /\ metrics.llm_success = 0
    /\ Lookup(_weekly_cache, ret.key) = BaselineEntry(ret, ret.at)

\* With a usable provider the outcome is the same, and no request ever enriches.
FallbackWithProvider ==
    /\ ProviderUsable(gpt)
    /\ ret.path = "fallback"
    /\ metrics.llm_fallback = 1

NeverEnriched == metrics.llm_success = 0 /\ ret.path # "llm"

(***************************************************************************)
(* Properties of the metrics.                                              *)
(***************************************************************************)
Tenths(x) == x.n * Pow10(1 - x.e)

\* x is num / den as a percentage, to the nearest tenth; 0 when den is 0.
IsRate(x, num, den) ==
    IF den = 0 THEN x = Zero
    ELSE LET off == Tenths(x) * den - 1000 * num
         IN 2 * (IF off < 0 THEN -off ELSE off) <= den

\* d is the snapshot of m: its fields and the two rates.
IsSnapshot(d, m) ==
    /\ DOMAIN d = DOMAIN m \cup {"llm_success_rate", "cache_hit_rate"}
    /\ \A f \in DOMAIN m : d[f] = m[f]
    /\ IsRate(d.cache_hit_rate, m.cache_hits, m.total_requests)
    /\ IsRate(d.llm_success_rate, m.llm_success, m.llm_success + m.llm_fallback)

\* C13: get_metrics reports cache_hits / total_requests and llm_success /
\* (llm_success + llm_fallback) as percentages rounded to one decimal (3 of 7 is
\* 42.9), 0 when the denominator is 0, and changes no metric.
C13_RatesRoundedToOneDecimal ==
    ret.kind = "get_metrics" =>
        /\ IsSnapshot(ret.data, ret.before)
        /\ (ret.before.cache_hits = 3 /\ ret.before.total_requests = 7)
              => ret.data.cache_hit_rate = [n |-> 429, e |-> 1]
        /\ metrics = ret.before

C13_Witness ==
    /\ ret.kind = "get_metrics"
    /\ ret.before.cache_hits = 3
    /\ ret.before.total_requests = 7
    /\ ret.before.llm_success = 1
    /\ ret.before.llm_fallback = 2
    /\ ret.data.cache_hit_rate = [n |-> 429, e |-> 1]
    /\ ret.data.llm_success_rate = [n |-> 333, e |-> 1]

Counters ==
    {"total_requests", "cache_hits", "llm_success", "llm_fallback",
     "workout_requests", "weekly_requests", "chat_requests"}

\* C14: reset_metrics returns the snapshot get_metrics would have returned just
\* before, leaves every counter and latency average at 0, and leaves both caches
\* as they were.
C14_ResetReturnsSnapshotAndZeroes ==
    [][(ret' # ret /\ ret'.kind = "reset_metrics")
       => /\ IsSnapshot(ret'.data, metrics)
          /\ ret'.data = get_metrics(metrics)
          /\ \A f \in Counters : metrics'[f] = 0
          /\ \A f \in DOMAIN metrics \ Counters : metrics'[f] = Zero
          /\ DOMAIN metrics' = DOMAIN metrics
          /\ _workout_cache' = _workout_cache
          /\ _weekly_cache' = _weekly_cache]_vars

C14_Witness ==
    /\ ret.kind = "reset_metrics"
    /\ ret.before.total_requests = 2
    /\ ret.before.cache_hits = 1
    /\ ret.before.avg_latency_ms # Zero
    /\ ret.data.cache_hit_rate = [n |-> 50, e |-> 0]
    /\ metrics = CoachMetrics
    /\ _workout_cache # <<>>

\* C15: only a reset_metrics call makes a counter smaller, and every
\* analyze_workout, weekly_review or chat_response call adds exactly one to
\* total_requests (and to the count of its type).
C15_CountersMonotonic ==
    [][/\ (\E f \in Counters : metrics'[f] < metrics[f])
            => (ret'.kind = "reset_metrics" /\ metrics' = CoachMetrics)
       /\ \A c \in Callers :
            (pending[c].kind # "none" /\ pending'[c].kind = "none")
               => /\ metrics'.total_requests = metrics.total_requests + 1
                  /\ LET f == pending[c].kind \o "_requests"
                     IN metrics'[f] = metrics[f] + 1]_vars

C15_Witness ==
    /\ ret.kind = "chat"
    /\ metrics.total_requests = 2
    /\ metrics.chat_requests = 1
    /\ metrics.weekly_requests = 1
    /\ metrics.llm_fallback = 2

(***************************************************************************)
(* Properties of the cache key.                                            *)
(***************************************************************************)
FiveFields == {"id", "distance_km", "duration_minutes", "avg_heart_rate", "type"}

\* How a field of d reads in the key: its value as text, "" when absent.
Rendering(d, f) ==
    IF f \in DOMAIN d THEN (IF d[f].t = "int" THEN ToString(d[f].v) ELSE d[f].v) ELSE ""

\* C16: two records that read the same on id, distance_km, duration_minutes,
\* avg_heart_rate and type get the same key under one prefix, whatever their
\* other fields are.
C16_KeyDependsOnFiveFields ==
    ret.kind = "cache_key" =>
        ((\A f \in FiveFields : Rendering(ret.a, f) = Rendering(ret.b, f))
            => ret.key_a = ret.key_b)

C16_Witness ==
    /\ ret.kind = "cache_key"
    /\ DOMAIN ret.a = {"id", "type", "max_heart_rate"}
    /\ DOMAIN ret.b = {"id", "type"}
    /\ ret.a.max_heart_rate.v = 190
    /\ ret.a.id.t = "int"
    /\ ret.b.id.t = "int"
    /\ ret.key_a = ret.key_b

(***************************************************************************)
(* Properties of cache reads and writes.                                   *)
(***************************************************************************)
\* C26: a request that hits returns the stored text and flag, does not attempt
\* the enrichment, leaves both caches as they were (the entry keeps the
\* timestamp of its write, so it is a hit only while younger than the TTL,
\* however often it was read) and changes neither llm_success nor llm_fallback.
C26_HitReadsOnly ==
    [][IsCall =>
        /\ ret'.path = "hit" =>
              /\ ret'.key \in Keys(CacheOf(ret'.kind))
              /\ ret'.text = Lookup(CacheOf(ret'.kind), ret'.key).summary
              /\ ret'.used_llm = Lookup(CacheOf(ret'.kind), ret'.key).used_llm
              /\ ret'.outcome = "none"
              /\ _workout_cache' = _workout_cache
              /\ _weekly_cache' = _weekly_cache
              /\ metrics'.llm_success = metrics.llm_success
              /\ metrics'.llm_fallback = metrics.llm_fallback
              /\ metrics'.cache_hits = metrics.cache_hits + 1
              /\ now - ret'.prior < CACHE_TTL_SECONDS
        /\ (ret'.prior >= 0 /\ now - ret'.prior >= CACHE_TTL_SECONDS)
              => ret'.path # "hit"]_vars

C26_Witness ==
    /\ ret.path = "hit"
    /\ ret.at = 1
    /\ ret.prior = 0
    /\ metrics.cache_hits = 2
    /\ Lookup(CacheOf(ret.kind), ret.key).ts = 0

\* C27: a request that stores a result leaves under its key exactly that result
\* with the current time; when the key was present (expired) the write replaces
\* the entry and does not change the number of entries; and a request for the
\* key that comes next and within the TTL hits and returns the new result.
C27_WriteOverwrites ==
    [][IsCall =>
        /\ ret'.stored.wrote =>
              /\ Lookup(CacheAfter(ret'.kind), ret'.key)
                    = [key |-> ret'.key, summary |-> ret'.stored.summary,
                       used_llm |-> ret'.stored.used_llm, ts |-> now]
              /\ Cardinality({i \in DOMAIN CacheAfter(ret'.kind) :
                                 CacheAfter(ret'.kind)[i].key = ret'.key}) = 1
              /\ ret'.prior >= 0 =>
                    /\ Len(cleaned'.before) = Len(CacheOf(ret'.kind))
                    /\ now - ret'.prior >= CACHE_TTL_SECONDS
        /\ (/\ ret.stored.wrote
            /\ ret'.kind = ret.kind
            /\ ret'.key = ret.key
            /\ now - ret.at < CACHE_TTL_SECONDS)
              => /\ ret'.path = "hit"
                 /\ ret'.text = ret.stored.summary
                 /\ ret'.used_llm = ret.stored.used_llm
                 /\ ret'.prior = ret.at]_vars

C27_Witness ==
    /\ ret.path = "hit"
    /\ ret.kind = "workout"
    /\ ret.text = ""
    /\ ret.prior = CACHE_TTL_SECONDS
    /\ metrics.llm_fallback = 2
    /\ Len(_workout_cache) = 1

(***************************************************************************)
(* Properties of the handlers on incomplete analyzer records.              *)
(***************************************************************************)
Absent(rag_result, field) == field \notin DOMAIN rag_result

\* C29: whichever optional sub-fields of rag_result are absent, the handler
\* raises nothing and returns a result; on a miss the baseline is the summary,
\* or the empty string without one, and the dict built for the enrichment holds
\* a default for each absent sub-field.
C29_AbsentFieldsDefault ==
    [][IsCall =>
        /\ ~ret'.raised
        /\ ret'.path \in {"hit", "fallback", "llm"}
        /\ ret'.path = "fallback" =>
              /\ ret'.text = (IF Absent(ret'.rag, "summary") THEN "" ELSE ret'.rag.summary)
              /\ Absent(ret'.rag, "points_forts") => ret'.stats.points_forts = <<>>
              /\ Absent(ret'.rag, "points_ameliorer") => ret'.stats.points_ameliorer = <<>>
              /\ ret'.kind = "workout" =>
                    /\ Absent(ret'.rag, "pace_str") => ret'.stats.allure = "N/A"
                    /\ Absent(ret'.rag, "splits_analysis") => ret'.stats.splits = <<>>
                    /\ Absent(ret'.rag, "comparison") => ret'.stats.comparison = ""
              /\ ret'.kind = "weekly" =>
                    /\ Absent(ret'.rag, "comparison") => ret'.stats.tendance = "stable"
                    /\ Absent(ret'.rag, "metrics") =>
                          /\ ret'.stats.km_semaine = PyInt(0)
                          /\ ret'.stats.nb_seances = PyInt(0)
                          /\ ret'.stats.allure_moy = "N/A"]_vars

C29_Witness ==
    /\ ret.kind = "weekly"
    /\ ret.rag = <<>>
    /\ ret.path = "fallback"
    /\ ~ret.raised
    /\ ret.text = ""
    /\ ret.stats.tendance = "stable"
    /\ ret.stats.km_semaine = PyInt(0)

C29_WitnessWorkout ==
    /\ ret.kind = "workout"
    /\ Absent(ret.rag, "pace_str")
    /\ ret.path = "fallback"
    /\ ret.text = "seance"
    /\ ret.stats.allure = "N/A"

(***************************************************************************)
(* Properties of the latency averages.                                     *)
(***************************************************************************)
\* The averages move as one update with some sample does: the overall average
\* always, the enrichment average iff is_llm, the cache average iff is_cache.
LatencyUpdated(is_llm, is_cache) ==
    \E sample \in LatencySamples :
       /\ metrics'.avg_latency_ms = Ema(metrics.avg_latency_ms, sample)
       /\ metrics'.llm_avg_latency_ms =
             (IF is_llm THEN Ema(metrics.llm_avg_latency_ms, sample)
              ELSE metrics.llm_avg_latency_ms)
       /\ metrics'.cache_avg_latency_ms =
             (IF is_cache THEN Ema(metrics.cache_avg_latency_ms, sample)
              ELSE metrics.cache_avg_latency_ms)

\* C30 as stated: every call that returns applies newAvg = 0.9 * oldAvg +
\* 0.1 * sample once to the overall average, to the enrichment average iff it
\* returned enriched text and to the cache average iff it was a hit, and leaves
\* the other averages as they were.
C30_EveryCallUpdatesLatency ==
    [][(IsCall /\ ~ret'.raised) => LatencyUpdated(ret'.used_llm, ret'.path = "hit")]_vars

\* The same for every call but a chat_response whose template fallback raised.
LatencyUpdatedUnlessApology ==
    [][(IsCall /\ ~ret'.raised /\ ret'.path # "apology")
          => LatencyUpdated(ret'.used_llm, ret'.path = "hit")]_vars

\* chat_response has returned its apology and no average has moved.
C30_ApologyUnmeasured ==
    /\ ret.kind = "chat"
    /\ ret.path = "apology"
    /\ metrics.total_requests = 1
    /\ metrics.llm_fallback = 1
    /\ metrics.avg_latency_ms = Zero

(***************************************************************************)
(* Properties of the provider boundary.                                    *)
(***************************************************************************)
\* C28: unless its caller is cancelled, _call_gpt raises nothing: whether the
\* key is missing, the import or the provider call raises, the wait times out
\* after LLM_TIMEOUT or the provider answers, it returns a triple (text or None,
\* success, metadata); success is True only with a non-empty text, and a
\* timeout returns (None, False) like every other failure.
C28_BoundaryNeverRaises ==
    ~gpt.caller_cancelled =>
        /\ gpt.pc # "raised"
        /\ gpt.error = "none"
        /\ gpt.pc = "returned" =>
              /\ gpt.result.success <=> gpt.result.text.some
              /\ gpt.result.success => (gpt.result.text.v # <<>> /\ gpt.provider = "done")
              /\ gpt.provider # "done" => (gpt.result.text = None /\ ~gpt.result.success)
              /\ gpt.provider = "cancelled" => gpt.elapsed = LLM_TIMEOUT
              /\ gpt.result.meta.context_type = gpt.context_type

C28_Witness ==
    /\ gpt.pc = "returned"
    /\ gpt.provider = "cancelled"
    /\ ~gpt.caller_cancelled
    /\ gpt.elapsed = LLM_TIMEOUT
    /\ gpt.result.text = None
    /\ ~gpt.result.success

(***************************************************************************)
(* Properties of the training engine.                                      *)
(***************************************************************************)
\* C17: evaluate_risk is critical if acwr > 1.5 or tsb < -30; else high if
\* acwr > 1.3 or tsb < -20; else low if acwr < 0.8; else moderate if tsb < -10;
\* else low.  (1.6, 0) is critical, (1.0, -25) high, (0.7, 0) low, (1.0, -15)
\* moderate.
C17_RiskPrecedence ==
    ret.kind = "evaluate_risk" =>
        LET a == ret.acwr
            t == ret.tsb
            critical == a > 150 \/ t < -300
            high == ~critical /\ (a > 130 \/ t < -200)
            under == ~critical /\ ~high /\ a < 80
            moderate == ~critical /\ ~high /\ ~under /\ t < -100
        IN /\ critical => ret.out = "critical"
           /\ high => ret.out = "high"
           /\ under => ret.out = "low"
           /\ moderate => ret.out = "moderate"
           /\ (~critical /\ ~high /\ ~under /\ ~moderate) => ret.out = "low"
           /\ (a = 160 /\ t = 0) => ret.out = "critical"
           /\ (a = 100 /\ t = -250) => ret.out = "high"
           /\ (a = 70 /\ t = 0) => ret.out = "low"
           /\ (a = 100 /\ t = -150) => ret.out = "moderate"

C17_Witness ==
    /\ ret.kind = "evaluate_risk"
    /\ ret.acwr = 70
    /\ ret.tsb = -150
    /\ ret.out = "low"

DeloadEligible(week, total_weeks) ==
    week = total_weeks \div 2 \/ (week > 4 /\ week % 4 = 0)

\* C18: determine_phase is race for every week >= total_weeks and taper for
\* every week with total_weeks - 2 <= week < total_weeks, deload-eligible weeks
\* included.
C18_RaceAndTaperFirst ==
    ret.kind = "determine_phase" =>
        /\ ret.week >= ret.total_weeks => ret.out = "race"
        /\ (ret.total_weeks - 2 <= ret.week /\ ret.week < ret.total_weeks)
              => ret.out = "taper"

C18_Witness ==
    /\ ret.kind = "determine_phase"
    /\ ret.week = 8
    /\ ret.total_weeks = 10
    /\ DeloadEligible(ret.week, ret.total_weeks)
    /\ ret.out = "taper"

\* C19: determine_phase returns one of the five phases for every pair; for a
\* week below total_weeks - 2 it is deload iff the week is deload-eligible,
\* otherwise build iff week < 0.6 * total_weeks, otherwise intensification.
C19_PhaseTotalAndOrdered ==
    ret.kind = "determine_phase" =>
        /\ ret.out \in {"build", "deload", "intensification", "taper", "race"}
        /\ ret.week < ret.total_weeks - 2 =>
              /\ (ret.out = "deload") <=> DeloadEligible(ret.week, ret.total_weeks)
              /\ ~DeloadEligible(ret.week, ret.total_weeks) =>
                    /\ (ret.out = "build") <=> (10 * ret.week < 6 * ret.total_weeks)
                    /\ (ret.out = "intensification")
                          <=> (10 * ret.week >= 6 * ret.total_weeks)

C19_Witness ==
    /\ ret.kind = "determine_phase"
    /\ ret.week = 6
    /\ ret.total_weeks = 10
    /\ ret.out = "intensification"

\* C20 as stated: compute_acwr is 1.0 when load_28 is 0 and otherwise exactly
\* load_7 / (load_28 / 4).
C20_AcwrExactQuotient ==
    ret.kind = "compute_acwr" =>
        /\ ret.load_28 = 0 => ret.out = 100
        /\ ret.load_28 # 0 => ret.out * ret.load_28 = 400 * ret.load_7

\* C20: compute_acwr is 1.0 when load_28 is 0, whatever load_7 is, and
\* otherwise load_7 / (load_28 / 4) rounded to two decimals.
C20_AcwrRoundedQuotient ==
    ret.kind = "compute_acwr" =>
        /\ ret.load_28 = 0 => ret.out = 100
        /\ ret.load_28 # 0 =>
              LET off == ret.out * ret.load_28 - 400 * ret.load_7
              IN 2 * (IF off < 0 THEN -off ELSE off) <= ret.load_28

C20_Witness ==
    /\ ret.kind = "compute_acwr"
    /\ ret.load_7 = 200
    /\ ret.load_28 = 1200
    /\ ret.out = 67

\* C25: compute_monotony returns 0 for an empty sequence, for one sample and
\* for every sequence of equal samples; otherwise it returns the mean divided
\* by the population standard deviation.
C25_MonotonyZeroOnDegenerate ==
    ret.kind = "compute_monotony" =>
        LET xs == ret.daily_loads
            n == Len(xs)
            s == sum(xs)
            d == n * sum(Squares(xs)) - s * s
        IN /\ (n < 2 \/ \A i \in DOMAIN xs : xs[i] = xs[1]) => ret.out = Ratio(0)
           /\ (n >= 2 /\ \E i \in DOMAIN xs : xs[i] # xs[1]) =>
                 /\ ~ret.out.blown
                 /\ ret.out.hundredths \in round_ratio(s, d)

C25_EqualSamplesBlowUp ==
    /\ ret.kind = "compute_monotony"
    /\ ret.daily_loads = <<1, 1, 1>>
    /\ ret.out = BlownUp

\* C21: when fitness_data has no load_28, build_training_context returns a
\* context with acwr = 1.0 whatever load_7 is, supplied or absent.
C21_AbsentLoad28GivesNeutralAcwr ==
    (ret.kind = "build_training_context" /\ "load_28" \notin DOMAIN ret.fitness_data)
        => ret.out.acwr = 100

C21_AbsentLoad28SuppliedLoad7 ==
    /\ ret.kind = "build_training_context"
    /\ "load_28" \notin DOMAIN ret.fitness_data
    /\ "load_7" \in DOMAIN ret.fitness_data
    /\ ret.fitness_data.load_7 = 600
    /\ ret.out.acwr = 200
    /\ ret.out.risk_level = "critical"

Million == 100 * 100 * 100

KmProduct(context, phase) ==
    LET pm == CASE phase = "build" -> 105
                [] phase = "deload" -> 75
                [] phase = "intensification" -> 100
                [] phase = "taper" -> 60
                [] phase = "race" -> 25
                [] OTHER -> 100
    IN Get(context, "weekly_km", 30) * pm
          * (IF Get(context, "acwr", 100) > 130 THEN 85 ELSE 100)

\* C23 as stated: determine_target_km is exactly weekly_km times the phase
\* multiplier, times 0.85 exactly when acwr > 1.3, whatever the goal.
C23_TargetKmExactProduct ==
    ret.kind = "determine_target_km" =>
        ret.out * 1000 = KmProduct(ret.context, ret.phase)

\* C23: determine_target_km is weekly_km times the phase multiplier, times
\* 0.85 exactly when acwr > 1.3, rounded to one decimal, whatever the goal.
C23_TargetKmRoundedProduct ==
    ret.kind = "determine_target_km" =>
        LET off == ret.out * 1000 - KmProduct(ret.context, ret.phase)
        IN 2 * (IF off < 0 THEN -off ELSE off) <= 1000

C23_Witness ==
    /\ ret.kind = "determine_target_km"
    /\ ret.goal = "ULTRA"
    /\ ret.phase = "build"
    /\ DOMAIN ret.context = {"weekly_km", "acwr"}
    /\ ret.context.weekly_km = 5
    /\ ret.context.acwr = 140
    /\ ret.out = 45

RatioOf(goal) ==
    CASE goal = "5K" -> <<25, 20>>
      [] goal = "SEMI" -> <<35, 15>>
      [] goal = "MARATHON" -> <<40, 12>>
      [] goal = "ULTRA" -> <<45, 10>>
      [] OTHER -> <<30, 18>>

\* |part * 1000 - target_km * share| <= tolerance, part and target_km in tenths
\* of a km and share in hundredths.
Within(part, target_km, share, tolerance) ==
    LET off == part * 100 - target_km * share
    IN (IF off < 0 THEN -off ELSE off) <= tolerance

IsChat == IsCall /\ ret'.kind = "chat"

\* C31: a chat_response call leaves both caches as they were and raises
\* nothing; it returns the enriched text with flag True when the enrichment
\* delivered text, else the template response with flag False, else, the
\* template generator having raised, the fixed apology with flag False; and
\* llm_fallback grows by one exactly on the outcomes that are not enriched.
C31_ChatAlwaysAnswers ==
    [][IsChat =>
          /\ UNCHANGED <<_workout_cache, _weekly_cache>>
          /\ ~ret'.raised
          /\ ret'.path \in {"llm", "template", "apology"}
          /\ ret'.outcome = "enriched" <=> ret'.path = "llm"
          /\ ret'.path = "llm" => (ret'.text = EnrichedText /\ ret'.used_llm)
          /\ ret'.path = "template" => (ret'.text = TemplateText /\ ~ret'.used_llm)
          /\ ret'.path = "apology" => (ret'.text = ChatApology /\ ~ret'.used_llm)
          /\ metrics'.llm_fallback =
                (IF ret'.path = "llm" THEN metrics.llm_fallback
                 ELSE metrics.llm_fallback + 1)
          /\ metrics'.llm_success =
                (IF ret'.path = "llm" THEN metrics.llm_success + 1
                 ELSE metrics.llm_success)
          /\ metrics'.cache_hits = metrics.cache_hits]_vars

\* chat_response has answered with the apology while a workout analysis is cached.
C31_Witness ==
    /\ ret.kind = "chat"
    /\ ret.path = "apology"
    /\ ret.text = ChatApology
    /\ ~ret.raised
    /\ metrics.llm_fallback = 2
    /\ _workout_cache # <<>>

(***************************************************************************)
(* Properties of the handlers under scheduling.                            *)
(***************************************************************************)
Outstanding(c) == pending[c].kind \in {"workout", "weekly"}

CanRun(c) == ENABLED analyze_workout(c) \/ ENABLED weekly_review(c)

\* C32: an outstanding analyze_workout or weekly_review request can always be
\* stepped, whatever the other caller's request is doing, and every such
\* request eventually returns.
C32_RequestsEventuallyReturn ==
    /\ [](\A c \in Callers : Outstanding(c) => CanRun(c))
    /\ \A c \in Callers : Outstanding(c) ~> (pending[c].kind = "none")

\* Of two requests outstanding for the same key, one has returned while the
\* other is still to run.
C32_Witness ==
    /\ ret.kind = "workout"
    /\ ret.rivals = 1
    /\ ~ret.raised
    /\ \E c \in Callers : pending[c].kind = "workout" /\ KeyOf(pending[c]) = ret.key

(***************************************************************************)
(* Properties of the counters taken together.                              *)
(***************************************************************************)
InFlight == {c \in Callers : pending[c].kind # "none"}

Outcomes(m) == m.cache_hits + m.llm_success + m.llm_fallback

\* C33: in every state total_requests is the sum of the three per-type
\* counts, and whenever no request is in flight it is also the sum of
\* cache_hits, llm_success and llm_fallback: each request that has returned
\* was counted as exactly one of hit, enriched or fallback.
C33_CountersAddUp ==
    /\ metrics.total_requests =
          metrics.workout_requests + metrics.weekly_requests + metrics.chat_requests
    /\ InFlight = {} => metrics.total_requests = Outcomes(metrics)

\* A miss answered by the fallback and a hit on its entry have both returned.
C33_Witness ==
    /\ InFlight = {}
    /\ metrics.total_requests = 2
    /\ metrics.cache_hits = 1
    /\ metrics.llm_fallback = 1
    /\ metrics.workout_requests + metrics.weekly_requests = 2

(***************************************************************************)
(* Properties of the counters under interleaved resets.                    *)
(***************************************************************************)
\* A rate of get_metrics, a decimal [n, e], is at most 100.
AtMost100(r) == r.n <= 100 * Pow10(r.e)

\* C34: in every state, those reached by a reset_metrics that ran while a
\* request was parked at an await included, cache_hits + llm_success +
\* llm_fallback is at most total_requests, and the two rates get_metrics
\* derives are at most 100 percent.
C34_OutcomesWithinTotal ==
    /\ Outcomes(metrics) <= metrics.total_requests
    /\ AtMost100(get_metrics(metrics).llm_success_rate)
    /\ AtMost100(get_metrics(metrics).cache_hit_rate)

\* A chat_response parked at its await across a reset_metrics has returned:
\* its latency went into the fresh metrics object, its counts did not.
C34_Witness ==
    /\ ret.kind = "chat"
    /\ ret.path = "template"
    /\ metrics.total_requests = 0
    /\ metrics.avg_latency_ms # Zero

(***************************************************************************)
(* Properties of the cache across users.                                   *)
(***************************************************************************)
Fingerprint == {"id", "distance_km", "duration_minutes", "avg_heart_rate", "type"}

AgreeOnFingerprint(w1, w2) ==
    \A f \in Fingerprint : Get(w1, f, PyStr("")) = Get(w2, f, PyStr(""))

\* C35: when analyze_workout runs for a workout that agrees on the five
\* fingerprint fields with the workout of an entry younger than the TTL, it
\* returns that entry's text and flag and attempts no enrichment, whoever the
\* user of the request is and whatever its rag_result holds.
C35_HitIgnoresUserAndRag ==
    [][\A c \in Callers :
          (pending[c].kind = "workout" /\ pending'[c].kind = "none") =>
             \A i \in DOMAIN _workout_cache :
                LET entry == _workout_cache[i]
                IN (/\ \E w \in UserWorkouts :
                          /\ entry.key = _cache_key(w, "workout")
                          /\ AgreeOnFingerprint(w, pending[c].workout)
                    /\ now - entry.ts < CACHE_TTL_SECONDS)
                   => /\ ret'.path = "hit"
                      /\ ret'.text = entry.summary
                      /\ ret'.used_llm = entry.used_llm
                      /\ ret'.outcome = "none"
                      /\ metrics'.llm_success = metrics.llm_success
                      /\ metrics'.llm_fallback = metrics.llm_fallback]_vars

\* User B's request has returned the text stored by user A's.
C35_Witness ==
    /\ ret.path = "hit"
    /\ ret.rag = [summary |-> "seance de B"]
    /\ ret.text = "seance de A"
    /\ ret.at - ret.prior < CACHE_TTL_SECONDS

\* The place of a phase in a cycle; a deload week has none of its own.
Rank(phase) ==
    CASE phase = "build" -> 1
      [] phase = "intensification" -> 2
      [] phase = "taper" -> 3
      [] phase = "race" -> 4
      [] OTHER -> 0

\* C36: for a fixed total_weeks and weeks from 1 upward, the phases come in
\* the order build, intensification, taper, race: a later week is never in an
\* earlier phase, no deload week comes after a taper or race week, and after
\* a race week every week is race.
C36_PhasesInOrder ==
    (ret.kind = "determine_phase" /\ ret.week >= 1) =>
        \A later \in (ret.week + 1)..(MaxWeeks + 2) :
           LET next == determine_phase(later, ret.total_weeks)
           IN /\ ret.out = "intensification" => next # "build"
              /\ ret.out = "taper" => next \in {"taper", "race"}
              /\ ret.out = "race" => next = "race"
              /\ (ret.out # "deload" /\ next # "deload") => Rank(ret.out) <= Rank(next)
              /\ next = "deload" => ret.out \in {"build", "deload", "intensification"}

\* Week 9 of 12 is intensification, after the deload weeks 6 and 8 and the
\* build week 7 between them.
C36_Witness ==
    /\ ret.kind = "determine_phase"
    /\ ret.week = 9
    /\ ret.total_weeks = 12
    /\ ret.out = "intensification"
    /\ determine_phase(6, 12) = "deload"
    /\ determine_phase(7, 12) = "build"
    /\ determine_phase(8, 12) = "deload"
    /\ determine_phase(10, 12) = "taper"

\* The phases of the weeks 1..cycle_weeks of a goal's cycle.
CyclePhases(goal) ==
    {determine_phase(week, GOAL_CONFIG[goal].cycle_weeks) :
        week \in 1..GOAL_CONFIG[goal].cycle_weeks}

\* C37 as stated: the cycle of every configured goal has at least one week of
\* each of the five phases.
C37_EveryPhaseInEveryCycle ==
    ret.kind = "determine_phase" =>
        \A goal \in Goals :
           ret.total_weeks = GOAL_CONFIG[goal].cycle_weeks => CyclePhases(goal) = Phases

\* The 5K cycle has six weeks: build, build, deload, taper, taper, race.
C37_CycleWithoutIntensification ==
    /\ ret.kind = "determine_phase"
    /\ ret.total_weeks = GOAL_CONFIG["5K"].cycle_weeks
    /\ ret.week = 3
    /\ ret.out = "deload"
    /\ CyclePhases("5K") = {"build", "deload", "taper", "race"}

\* C37: every configured cycle has build, deload, taper and race weeks; the
\* cycles longer than six weeks have an intensification week as well, the
\* six-week cycle has none.
C37_CyclesHaveCorePhases ==
    ret.kind = "determine_phase" =>
        \A goal \in Goals :
           ret.total_weeks = GOAL_CONFIG[goal].cycle_weeks =>
              CyclePhases(goal) = (IF GOAL_CONFIG[goal].cycle_weeks > 6 THEN Phases
                                   ELSE Phases \ {"intensification"})

\* C38: when evaluate_risk of the context's acwr and tsb is high or critical,
\* determine_target_load returns at most ctl, and less than ctl when ctl > 0,
\* whatever the phase.
C38_ElevatedRiskLowersLoad ==
    ret.kind = "determine_target_load" =>
        LET ctl == Get(ret.context, "ctl", 40)
            tsb == Get(ret.context, "tsb", 0)
            acwr == Get(ret.context, "acwr", Hundredths(1, 0))
        IN evaluate_risk(acwr, tsb) \in {"high", "critical"} =>
              /\ ret.out <= ctl
              /\ ctl > 0 => ret.out < ctl

\* The largest product under elevated risk: intensification (1.10) with acwr
\* 1.4 (0.85) and tsb +15 (1.05) on ctl 120 gives 117.
C38_Witness ==
    /\ ret.kind = "determine_target_load"
    /\ ret.phase = "intensification"
    /\ DOMAIN ret.context = {"ctl", "tsb", "acwr"}
    /\ ret.context.ctl = 120
    /\ ret.context.acwr = 140
    /\ ret.context.tsb = 150
    /\ evaluate_risk(ret.context.acwr, ret.context.tsb) = "high"
    /\ ret.out = 117

\* C39: for every goal, an unknown one falling back to the 10K configuration,
\* the three parts of the recommended distribution are non-negative and their
\* sum is target_km up to the rounding of each part to one decimal: 0.05 km
\* for each of the three, in tenths of a km.
C39_SplitAddsUpToTarget ==
    ret.kind = "generate_week_recommendation" =>
        LET d == ret.out.distribution
            total == d.long_run_km + d.easy_km + d.intensity_km
        IN /\ ret.out.target_km >= 0
           /\ d.long_run_km >= 0
           /\ d.easy_km >= 0
           /\ d.intensity_km >= 0
           /\ 10 * (total - ret.out.target_km) <= 15
           /\ 10 * (ret.out.target_km - total) <= 15
           /\ ret.goal \notin Goals => d \in distribution(ret.out.target_km, GOAL_CONFIG["10K"])

\* ULTRA, deload, 30 km a week: 22.5 km split into 10.1 + 10.1 + 2.2 = 22.4.
C39_Witness ==
    /\ ret.kind = "generate_week_recommendation"
    /\ ret.goal = "ULTRA"
    /\ ret.phase = "deload"
    /\ ret.out.target_km = 225
    /\ ret.out.distribution = [long_run_km |-> 101, easy_km |-> 101, intensity_km |-> 22]

====
